---- MODULE Spec2Model ----
(***************************************************************************)
(* Data grid pipe processing and rows meta (row heights, positions).       *)
(*                                                                         *)
(* The model follows useGridRowsMeta (src/unnamed/part_001, lines 1-298),  *)
(* the columns hydration applier of useGridColumns (same file, lines       *)
(* 366-740) and the detail panel pre-processor (src/unnamed/part_000).     *)
(* The pipe processing registry itself (registerPipeProcessor,             *)
(* unregisterPipeProcessor, applyPipeProcessors, registerPipeApplier) and  *)
(* createColumnsState are used by these files but are not part of the      *)
(* sources at hand: they are modelled from the specification, sections     *)
(* 4.1 to 4.3.                                                             *)
(***************************************************************************)
EXTENDS Integers, Sequences, FiniteSets, TLC

VARIABLES
    processors,            \* registry: extension point -> sequence of [id, fn]
    rowsHeightLookup,      \* React ref: row id -> height entry
    lastMeasuredRowIndex,  \* React ref
    hasRowWithAutoHeight,  \* React ref
    rowsMeta,              \* state.rowsMeta
    props,                 \* what the current hydrateRowsMeta closure captures
    debouncePending,       \* timer of the current debouncedHydrateRowsMeta is set
    staleDebounces,        \* timers of earlier debounced functions, oldest first
    columns,               \* state.columns
    lastOp,                \* the handler that ran last, its arguments and its trace
    measuredWindow,        \* rows measured since no recomputation was pending
    exportedState,         \* columns section of the last exported state
    lastPass               \* how the latest hydrateRowsMeta call ended

vars == <<processors, rowsHeightLookup, lastMeasuredRowIndex, hasRowWithAutoHeight,
          rowsMeta, props, debouncePending, staleDebounces, columns, lastOp,
          measuredWindow, exportedState,
          lastPass>>

-----------------------------------------------------------------------------
(* Bounds of the model *)

\* measured and resized heights are drawn from 1..MaxHeight
MaxHeight == 1

\* number of replaced debounced functions whose timer may still be set
MaxStale == 1

\* row indexes handed to setLastMeasuredRowIndex are drawn from 0..MaxIndex
MaxIndex == 1

\* largest target index handed to setColumnIndex
MaxTargetIndex == 3

\* Infinity, as stored in lastMeasuredRowIndex
Infinity == 999

-----------------------------------------------------------------------------
(* Inputs *)

DataRows == {"r1", "r2"}
PinnedRowId == "p"
RowIds == DataRows \cup {PinnedRowId}

\* currentPage.rows: the visible rows of the current page, in display order
Pages == {<< >>, <<"r1", "r2">>, <<"r2">>}

PinnedRowsChoices ==
    { [top |-> << >>, bottom |-> << >>],
      [top |-> <<PinnedRowId>>, bottom |-> << >>] }

Densities == {2, 3}

\* the getRowHeight prop: not given, or a function that returns 'auto', a number
\* or null for every row
RowHeightProps == {"absent", "auto", "number", "nullish"}

\* the getEstimatedRowHeight prop: not given, or a function that returns a number
EstimatedRowHeightProps == {"absent", "number"}

SpacingChoices == {"absent", "present"}

Heights == 1..MaxHeight

\* index argument of setLastMeasuredRowIndex
Indexes == 0..MaxIndex

\* position argument of storeRowHeightMeasurement
Positions == {"center", "left"}

Points == {"rowHeight", "hydrateColumns"}
ProcessorIds == {"a", "b"}
RowHeightFns == {"setDetail", "bumpDetail"}
HydrateColumnsFns == {"addToggleColumn:on", "addToggleColumn:off"}

\* a rowHeight processor that throws
ThrowingFn == "throws"

FnsOf(point) == IF point = "rowHeight" THEN RowHeightFns ELSE HydrateColumnsFns

GRID_DETAIL_PANEL_TOGGLE_FIELD == "__detail_panel_toggle__"

\* field arguments of setColumnIndex: the fields of the columns and one that no
\* column has
ColumnFields == {"name", "age", GRID_DETAIL_PANEL_TOGGLE_FIELD, "email"}

\* targetIndexPosition arguments of setColumnIndex
TargetIndexes == (-1)..MaxTargetIndex

\* the fields of the columns given in props.columns
DeclaredFields == {"name", "age"}

\* column visibility models: field -> visible, for some of the declared fields
VisibilityModels ==
    UNION { [S -> BOOLEAN] : S \in SUBSET DeclaredFields }

\* width arguments of setColumnWidth
ColumnWidths == {1, Infinity}

\* props.columnVisibilityModel: absent, or given (a controlled model)
ColumnVisibilityModelProps == {"absent", "given"}

\* props.initialState?.columns?.columnVisibilityModel ?? {}
InitialVisibilityModels == { << >>, [f \in {"age"} |-> FALSE] }

\* COLUMNS_DIMENSION_PROPERTIES, the ones the column definitions of the model carry
COLUMNS_DIMENSION_PROPERTIES == {"width", "maxWidth"}

\* context.exportOnlyDirtyModels of an exportState call
ExportContexts == BOOLEAN

-----------------------------------------------------------------------------
(* Helpers on finite maps and sequences *)

Put(f, k, v) == [x \in (DOMAIN f) \cup {k} |-> IF x = k THEN v ELSE f[x]]

Restrict(f, S) == [x \in (DOMAIN f) \cap S |-> f[x]]

Range(s) == {s[i] : i \in DOMAIN s}

RECURSIVE SumOver(_, _)
SumOver(f, S) ==
    IF S = {} THEN 0
    ELSE LET k == CHOOSE x \in S : TRUE
         IN  f[k] + SumOver(f, S \ {k})

\* 0-based index of x in s, -1 when absent (Array.prototype.findIndex)
FindIndex(s, x) ==
    IF \E i \in DOMAIN s : s[i] = x
    THEN (CHOOSE i \in DOMAIN s : s[i] = x /\ \A j \in 1..(i - 1) : s[j] # x) - 1
    ELSE -1

RemoveAt(s, i) == [j \in 1..(Len(s) - 1) |-> IF j < i THEN s[j] ELSE s[j + 1]]

\* the 0-based index at which Array.prototype.splice starts: a negative start
\* counts from the end, and the result is kept within 0..length
spliceStart(s, start) ==
    IF start < 0
    THEN (IF Len(s) + start < 0 THEN 0 ELSE Len(s) + start)
    ELSE (IF start > Len(s) THEN Len(s) ELSE start)

\* array.splice(start, 1)[0], undefined when nothing is removed
spliceRemoved(s, start) ==
    IF spliceStart(s, start) < Len(s) THEN s[spliceStart(s, start) + 1] ELSE "undefined"

\* the array after array.splice(start, 1)
spliceOne(s, start) ==
    IF spliceStart(s, start) < Len(s) THEN RemoveAt(s, spliceStart(s, start) + 1) ELSE s

\* the array after array.splice(start, 0, x)
spliceInsert(s, start, x) ==
    SubSeq(s, 1, spliceStart(s, start)) \o <<x>>
        \o SubSeq(s, spliceStart(s, start) + 1, Len(s))

-----------------------------------------------------------------------------
(* Pipe processors *)

\* addToggleColumn that prepends the toggle column without looking it up first
addToggleColumnUnguarded(captured, columnsState) ==
    IF ~captured
    THEN IF GRID_DETAIL_PANEL_TOGGLE_FIELD \in columnsState.lookup
         THEN [columnsState EXCEPT
                 !.lookup = @ \ {GRID_DETAIL_PANEL_TOGGLE_FIELD},
                 !.orderedFields = SelectSeq(@, LAMBDA f : f # GRID_DETAIL_PANEL_TOGGLE_FIELD)]
         ELSE columnsState
    ELSE [columnsState EXCEPT
            !.orderedFields = <<GRID_DETAIL_PANEL_TOGGLE_FIELD>> \o @,
            !.lookup = @ \cup {GRID_DETAIL_PANEL_TOGGLE_FIELD}]

\* addToggleColumn of the detail panel; captured is props.getDetailPanelContent != null
addToggleColumn(captured, columnsState) ==
    IF ~captured
    THEN IF GRID_DETAIL_PANEL_TOGGLE_FIELD \in columnsState.lookup
         THEN [columnsState EXCEPT
                 !.lookup = @ \ {GRID_DETAIL_PANEL_TOGGLE_FIELD},
                 !.orderedFields = SelectSeq(@, LAMBDA f : f # GRID_DETAIL_PANEL_TOGGLE_FIELD)]
         ELSE columnsState
    ELSE IF GRID_DETAIL_PANEL_TOGGLE_FIELD \in columnsState.lookup
         THEN columnsState
         ELSE [columnsState EXCEPT
                 !.orderedFields = <<GRID_DETAIL_PANEL_TOGGLE_FIELD>> \o @,
                 !.lookup = @ \cup {GRID_DETAIL_PANEL_TOGGLE_FIELD}]

\* one processor applied to the accumulated value
RunProcessor(fn, value) ==
    CASE fn = "setDetail" -> Put(value, "detail", 2)
      [] fn = "bumpDetail" ->
            Put(value, "detail", (IF "detail" \in DOMAIN value THEN value["detail"] ELSE 0) + 1)
      [] fn = "addToggleColumn:on" -> addToggleColumn(TRUE, value)
      [] fn = "addToggleColumn:off" -> addToggleColumn(FALSE, value)

RECURSIVE FoldProcessors(_, _, _)
FoldProcessors(list, i, value) ==
    IF i > Len(list) THEN value
    ELSE FoldProcessors(list, i + 1, RunProcessor(list[i].fn, value))

\* applyPipeProcessors(point, value) over the registry contents procs
applyPipeProcessors(procs, point, value) == FoldProcessors(procs[point], 1, value)

\* the registry after registerPipeProcessor(point, id, fn), appending variant
registerAppend(procs, point, id, fn) ==
    [procs EXCEPT ![point] =
        Append(SelectSeq(@, LAMBDA e : e.id # id), [id |-> id, fn |-> fn])]

\* the registry after registerPipeProcessor(point, id, fn)
registerProcessor(procs, point, id, fn) ==
    [procs EXCEPT ![point] =
        IF \E i \in DOMAIN @ : @[i].id = id
        THEN [i \in DOMAIN @ |-> IF @[i].id = id THEN [id |-> id, fn |-> fn] ELSE @[i]]
        ELSE Append(@, [id |-> id, fn |-> fn])]

\* the registry after unregisterPipeProcessor(point, id), dropping the point
unregisterWholePoint(procs, point, id) ==
    [procs EXCEPT ![point] = << >>]

\* the registry after unregisterPipeProcessor(point, id)
unregisterProcessor(procs, point, id) ==
    [procs EXCEPT ![point] = SelectSeq(@, LAMBDA e : e.id # id)]

-----------------------------------------------------------------------------
(* Props of useGridRowsMeta *)

\* result of the getRowHeight prop for a row
getRowHeightProp(closure, row) ==
    CASE closure.getRowHeight = "auto" -> [kind |-> "auto", value |-> 0]
      [] closure.getRowHeight = "number" -> [kind |-> "number", value |-> 4]
      [] OTHER -> [kind |-> "nullish", value |-> 0]

\* getEstimatedRowHeight ? getEstimatedRowHeight(row) : rowHeightFromDensity
estimatedRowHeight(closure, row) ==
    IF closure.getEstimatedRowHeight = "number" THEN 5 ELSE closure.rowHeightFromDensity

\* apiRef.current.getRowIndexRelativeToVisibleRows(id), -1 for a row that is not visible
getRowIndexRelativeToVisibleRows(visibleRows, id) == FindIndex(visibleRows, id)

\* result of the getRowSpacing prop: spacing between rows, none at the page's edges
getRowSpacing(closure, visibleRows, row) ==
    [top |-> IF getRowIndexRelativeToVisibleRows(visibleRows, row) = 0 THEN 0 ELSE 1,
     bottom |-> IF /\ getRowIndexRelativeToVisibleRows(visibleRows, row) >= 0
                   /\ getRowIndexRelativeToVisibleRows(visibleRows, row)
                        = Len(closure.rows) - 1
                THEN 0 ELSE 1]

\* /^base[A-Z]/.test(key)
IsBaseKey(key) == key \in {"baseCenter", "baseLeft", "baseRight"}

\* `base${capitalize(position)}`
BaseKeyOf(position) ==
    CASE position = "center" -> "baseCenter"
      [] position = "left" -> "baseLeft"
      [] position = "right" -> "baseRight"

-----------------------------------------------------------------------------
(* hydrateRowsMeta *)

\* the entry created for a row that has none
newHeightEntry(closure) ==
    [sizes |-> [k \in {"baseCenter"} |-> closure.rowHeightFromDensity],
     isResized |-> FALSE,
     autoHeight |-> FALSE,
     needsFirstMeasurement |-> TRUE]

\* the base height of a row that is not resized, an 'auto' row always at its estimate
heightAlwaysEstimated(entry, closure, row) ==
    IF closure.getRowHeight # "absent"
    THEN IF getRowHeightProp(closure, row).kind = "auto"
         THEN [height |-> estimatedRowHeight(closure, row),
               autoHeight |-> TRUE,
               needsFirstMeasurement |-> entry.needsFirstMeasurement,
               sawAuto |-> TRUE]
         ELSE [height |-> IF getRowHeightProp(closure, row).kind = "number"
                          THEN getRowHeightProp(closure, row).value
                          ELSE closure.rowHeightFromDensity,
               autoHeight |-> FALSE,
               needsFirstMeasurement |-> FALSE,
               sawAuto |-> FALSE]
    ELSE [height |-> closure.rowHeightFromDensity,
          autoHeight |-> entry.autoHeight,
          needsFirstMeasurement |-> FALSE,
          sawAuto |-> FALSE]

\* the base height of a row that is not resized, the flags of the entry left as they
\* are when the provider returns a number
heightKeepingFlags(entry, closure, row) ==
    IF closure.getRowHeight # "absent"
    THEN IF getRowHeightProp(closure, row).kind = "auto"
         THEN [height |-> IF entry.needsFirstMeasurement
                          THEN estimatedRowHeight(closure, row)
                          ELSE entry.sizes["baseCenter"],
               autoHeight |-> TRUE,
               needsFirstMeasurement |-> entry.needsFirstMeasurement,
               sawAuto |-> TRUE]
         ELSE [height |-> IF getRowHeightProp(closure, row).kind = "number"
                          THEN getRowHeightProp(closure, row).value
                          ELSE closure.rowHeightFromDensity,
               autoHeight |-> entry.autoHeight,
               needsFirstMeasurement |-> entry.needsFirstMeasurement,
               sawAuto |-> FALSE]
    ELSE [height |-> closure.rowHeightFromDensity,
          autoHeight |-> entry.autoHeight,
          needsFirstMeasurement |-> FALSE,
          sawAuto |-> FALSE]

\* the base height of a row that is not resized, and the flags written with it
heightFromProvider(entry, closure, row) ==
    IF closure.getRowHeight # "absent"
    THEN IF getRowHeightProp(closure, row).kind = "auto"
         THEN [height |-> IF entry.needsFirstMeasurement
                          THEN estimatedRowHeight(closure, row)
                          ELSE entry.sizes["baseCenter"],
               autoHeight |-> TRUE,
               needsFirstMeasurement |-> entry.needsFirstMeasurement,
               sawAuto |-> TRUE]
         ELSE [height |-> IF getRowHeightProp(closure, row).kind = "number"
                          THEN getRowHeightProp(closure, row).value
                          ELSE closure.rowHeightFromDensity,
               autoHeight |-> FALSE,
               needsFirstMeasurement |-> FALSE,
               sawAuto |-> FALSE]
    ELSE [height |-> closure.rowHeightFromDensity,
          autoHeight |-> entry.autoHeight,
          needsFirstMeasurement |-> FALSE,
          sawAuto |-> FALSE]

\* the base height chosen with the isResized flag not consulted
baseRowHeightIgnoringResize(entry, closure, row) == heightFromProvider(entry, closure, row)

\* the base height chosen for a row and the flags written with it
baseRowHeight(entry, closure, row) ==
    IF entry.isResized
    THEN [height |-> entry.sizes["baseCenter"],
          autoHeight |-> entry.autoHeight,
          needsFirstMeasurement |-> entry.needsFirstMeasurement,
          sawAuto |-> FALSE]
    ELSE heightFromProvider(entry, closure, row)

\* every cached size is carried over
allExistingSizes(sizes) == sizes

\* the cached sizes whose key is a base key
existingBaseSizes(sizes) == Restrict(sizes, {k \in DOMAIN sizes : IsBaseKey(k)})

\* the heights handed to the rowHeight processors
initialHeights(entry, decided, closure, visibleRows, row) ==
    IF closure.getRowSpacing = "present"
    THEN Put(Put(Put(existingBaseSizes(entry.sizes), "baseCenter", decided.height),
                 "spacingTop", getRowSpacing(closure, visibleRows, row).top),
             "spacingBottom", getRowSpacing(closure, visibleRows, row).bottom)
    ELSE Put(existingBaseSizes(entry.sizes), "baseCenter", decided.height)

\* rowsHeightLookup.current[row.id].sizes = processedSizes; return processedSizes
storeProcessedSizes(lookup, row, entry, decided, processedSizes) ==
    [lookup |-> Put(lookup, row,
                    [sizes |-> processedSizes,
                     isResized |-> entry.isResized,
                     autoHeight |-> decided.autoHeight,
                     needsFirstMeasurement |-> decided.needsFirstMeasurement]),
     sawAuto |-> decided.sawAuto,
     sizes |-> processedSizes]

\* calculateRowProcessedSizes(row) from the base height decided on
processRowSizes(lookup, closure, visibleRows, procs, row, entry, decided) ==
    storeProcessedSizes(lookup, row, entry, decided,
        applyPipeProcessors(procs, "rowHeight",
                            initialHeights(entry, decided, closure, visibleRows, row)))

\* calculateRowProcessedSizes(row) for the entry of the row
processRowEntry(lookup, closure, visibleRows, procs, row, entry) ==
    processRowSizes(lookup, closure, visibleRows, procs, row, entry,
                    baseRowHeight(entry, closure, row))

\* calculateRowProcessedSizes(row): the cache after it, whether the row is auto
\* height, and the sizes it returns
calculateRowProcessedSizes(lookup, closure, visibleRows, procs, row) ==
    processRowEntry(lookup, closure, visibleRows, procs, row,
                    IF row \in DOMAIN lookup THEN lookup[row] ELSE newHeightEntry(closure))

\* the largest of the values, 0 when none is positive
maximumBaseSize(values) ==
    IF \E v \in values : v > 0
    THEN CHOOSE m \in values : \A v \in values : v <= m
    ELSE 0

\* maximumBaseSize + otherSizes of one row
rowTotalHeight(sizes) ==
    maximumBaseSize({sizes[k] : k \in {x \in DOMAIN sizes : IsBaseKey(x)}})
    + SumOver(sizes, {x \in DOMAIN sizes : ~IsBaseKey(x)})

\* one step of currentPage.rows.reduce: the position pushed, the height added
reduceStep(st, r) ==
    [lookup |-> r.lookup,
     positions |-> Append(st.positions, st.acc),
     acc |-> st.acc + rowTotalHeight(r.sizes),
     hasAuto |-> st.hasAuto \/ r.sawAuto]

\* currentPage.rows.reduce(...): rows i.. of the page, over the accumulator st
RECURSIVE reduceCurrentPage(_, _, _, _, _)
reduceCurrentPage(st, closure, visibleRows, procs, i) ==
    IF i > Len(closure.rows) THEN st
    ELSE reduceCurrentPage(
             reduceStep(st, calculateRowProcessedSizes(st.lookup, closure, visibleRows,
                                                       procs, closure.rows[i])),
             closure, visibleRows, procs, i + 1)

\* one step of pinnedRows.top.forEach: only the cache and the auto flag change
pinnedStep(st, r) == [st EXCEPT !.lookup = r.lookup, !.hasAuto = @ \/ r.sawAuto]

\* pinnedRows.top.forEach / pinnedRows.bottom.forEach
RECURSIVE forEachPinned(_, _, _, _, _, _)
forEachPinned(st, closure, visibleRows, procs, rows, i) ==
    IF i > Len(rows) THEN st
    ELSE forEachPinned(
             pinnedStep(st, calculateRowProcessedSizes(st.lookup, closure, visibleRows,
                                                       procs, rows[i])),
             closure, visibleRows, procs, rows, i + 1)

\* what a pass leaves in the cache, in state.rowsMeta and in hasRowWithAutoHeight
passResult(st) ==
    [lookup |-> st.lookup,
     rowsMeta |-> [currentPageTotalHeight |-> st.acc, positions |-> st.positions],
     hasAuto |-> st.hasAuto]

\* one pass of the hydrateRowsMeta closure over the cache lookup
hydrateRowsMeta(lookup, closure, visibleRows, procs) ==
    passResult(
        forEachPinned(
            forEachPinned(
                reduceCurrentPage(
                    [lookup |-> lookup, positions |-> << >>, acc |-> 0, hasAuto |-> FALSE],
                    closure, visibleRows, procs, 1),
                closure, visibleRows, procs, closure.pinnedRows.top, 1),
            closure, visibleRows, procs, closure.pinnedRows.bottom, 1))

\* the writes of a pass
CommitPass(r) ==
    /\ rowsHeightLookup' = r.lookup
    /\ rowsMeta' = r.rowsMeta
    /\ hasRowWithAutoHeight' = r.hasAuto
    /\ lastMeasuredRowIndex' = IF ~r.hasAuto THEN Infinity ELSE lastMeasuredRowIndex
    /\ lastPass' = "forceUpdate"

\* hydrateRowsMeta() of the closure that keeps the entries of the rows it goes
\* through and drops the others
HydratedOverPassRowsOnly(lookup, closure, visibleRows, procs) ==
    CommitPass(hydrateRowsMeta(
        Restrict(lookup, Range(closure.rows) \cup Range(closure.pinnedRows.top)
                             \cup Range(closure.pinnedRows.bottom)),
        closure, visibleRows, procs))

\* a processor of the point throws
processorThrows(procs, point) ==
    \E i \in DOMAIN procs[point] : procs[point][i].fn = ThrowingFn

\* the row a pass of the closure calls calculateRowProcessedSizes on first
firstRowOfPass(closure) ==
    IF closure.rows # << >> THEN closure.rows[1]
    ELSE IF closure.pinnedRows.top # << >> THEN closure.pinnedRows.top[1]
    ELSE closure.pinnedRows.bottom[1]

\* the pass calls applyPipeProcessors, for its first row, and a processor throws
passThrows(closure, procs) ==
    /\ processorThrows(procs, "rowHeight")
    /\ \/ closure.rows # << >>
       \/ closure.pinnedRows.top # << >>
       \/ closure.pinnedRows.bottom # << >>

\* the entry of a row after lines 70-111, its sizes not yet replaced
flagsWritten(entry, decided) ==
    [entry EXCEPT !.autoHeight = decided.autoHeight,
                  !.needsFirstMeasurement = decided.needsFirstMeasurement]

\* the cache and the auto flag when applyPipeProcessors throws for the row
thrownAt(lookup, closure, row, entry) ==
    [lookup |-> Put(lookup, row, flagsWritten(entry, baseRowHeight(entry, closure, row))),
     hasAuto |-> baseRowHeight(entry, closure, row).sawAuto]

\* a pass that the throw of a processor ends at its first row
abortedPass(lookup, closure) ==
    thrownAt(lookup, closure, firstRowOfPass(closure),
             IF firstRowOfPass(closure) \in DOMAIN lookup
             THEN lookup[firstRowOfPass(closure)]
             ELSE newHeightEntry(closure))

\* the writes of a pass that a throw ends: the refs written before the throw
AbortPass(r) ==
    /\ rowsHeightLookup' = r.lookup
    /\ hasRowWithAutoHeight' = r.hasAuto
    /\ lastPass' = "throw"
    /\ UNCHANGED <<rowsMeta, lastMeasuredRowIndex>>

\* hydrateRowsMeta() that answers the throw of a processor with an empty rowsMeta
HydratedCatchingTheThrow(lookup, closure, visibleRows, procs) ==
    IF passThrows(closure, procs)
    THEN /\ rowsHeightLookup' = abortedPass(lookup, closure).lookup
         /\ hasRowWithAutoHeight' = abortedPass(lookup, closure).hasAuto
         /\ rowsMeta' = [currentPageTotalHeight |-> 0, positions |-> << >>]
         /\ lastPass' = "forceUpdate"
         /\ UNCHANGED lastMeasuredRowIndex
    ELSE CommitPass(hydrateRowsMeta(lookup, closure, visibleRows, procs))

\* hydrateRowsMeta() of the closure, run over the cache lookup
Hydrated(lookup, closure, visibleRows, procs) ==
    IF passThrows(closure, procs)
    THEN AbortPass(abortedPass(lookup, closure))
    ELSE CommitPass(hydrateRowsMeta(lookup, closure, visibleRows, procs))

-----------------------------------------------------------------------------
(* State *)

PropsSpace ==
    { [rows |-> pg, pinnedRows |-> pin, rowHeightFromDensity |-> d,
       getRowHeight |-> g, getEstimatedRowHeight |-> e, getRowSpacing |-> sp,
       columnVisibilityModel |-> cvm, initialColumnVisibilityModel |-> icvm] :
      pg \in Pages, pin \in PinnedRowsChoices, d \in Densities,
      g \in RowHeightProps, e \in EstimatedRowHeightProps, sp \in SpacingChoices,
      cvm \in ColumnVisibilityModelProps, icvm \in InitialVisibilityModels }

\* the props of the first render: any visible rows and getRowHeight prop, with one
\* of the configurations of the other props
Configurations ==
    { [pinnedRows |-> [top |-> << >>, bottom |-> << >>], rowHeightFromDensity |-> 2,
       getEstimatedRowHeight |-> "absent", getRowSpacing |-> "absent"],
      [pinnedRows |-> [top |-> <<PinnedRowId>>, bottom |-> << >>], rowHeightFromDensity |-> 3,
       getEstimatedRowHeight |-> "number", getRowSpacing |-> "present"] }

InitialProps ==
    { p \in PropsSpace :
        \E c \in Configurations :
            /\ p.pinnedRows = c.pinnedRows
            /\ p.rowHeightFromDensity = c.rowHeightFromDensity
            /\ p.getEstimatedRowHeight = c.getEstimatedRowHeight
            /\ p.getRowSpacing = c.getRowSpacing
            /\ p.columnVisibilityModel = "absent"
            /\ p.initialColumnVisibilityModel = << >> }

\* what a handler leaves in lastOp: its name, the registrant id it was called with
\* and, in order, what it did
OpOn(name, id, log) == [op |-> name, arg |-> id, log |-> log]

Op(name, log) == OpOn(name, "", log)

\* number of debounced recomputations whose timer is set
PendingRecomputations == Len(staleDebounces) + (IF debouncePending THEN 1 ELSE 0)

\* rowsMetaStateInitializer, columnsStateInitializer and the refs of the first render
Init ==
    /\ processors = [point \in Points |-> << >>]
    /\ rowsHeightLookup = << >>
    /\ lastMeasuredRowIndex = -1
    /\ hasRowWithAutoHeight = FALSE
    /\ rowsMeta = [currentPageTotalHeight |-> 0, positions |-> << >>]
    /\ props \in InitialProps
    /\ debouncePending = FALSE
    /\ staleDebounces = << >>
    /\ columns = [orderedFields |-> <<"name", "age">>, lookup |-> {"name", "age"},
                  columnVisibilityModel |-> << >>,
                  dimensions |-> [f \in DeclaredFields |->
                                     [width |-> 1, maxWidth |-> Infinity, hasBeenResized |-> FALSE]]]
    /\ lastOp = Op("init", << >>)
    /\ measuredWindow = {}
    /\ exportedState = << >>
    /\ lastPass = "none"

-----------------------------------------------------------------------------
(* Appliers *)

\* the hydrateColumns applier: createColumnsState over the current columns, then
\* setGridColumnsState
hydrateColumns(procs, columnsState) == applyPipeProcessors(procs, "hydrateColumns", columnsState)

\* the appliers of a point run before the registry changes
AppliersBeforeMutation(point, procsBefore, procsAfter, name, id) ==
    IF point = "rowHeight"
    THEN /\ lastOp' = OpOn(name, id, <<"hydrateRowsMeta", "registry">>)
         /\ Hydrated(rowsHeightLookup, props, props.rows, procsBefore)
         /\ UNCHANGED columns
    ELSE /\ lastOp' = OpOn(name, id, <<"hydrateColumns", "columnsChange", "registry">>)
         /\ columns' = hydrateColumns(procsBefore, columns)
         /\ UNCHANGED <<rowsHeightLookup, rowsMeta, hasRowWithAutoHeight, lastMeasuredRowIndex,
                        lastPass>>

\* the appliers of a point run when a processor is registered, not when one is removed
AppliersOnRegisterOnly(point, procsBefore, procsAfter, name, id) ==
    IF name = "unregisterPipeProcessor"
    THEN /\ lastOp' = OpOn(name, id, <<"registry">>)
         /\ UNCHANGED <<rowsHeightLookup, rowsMeta, hasRowWithAutoHeight,
                        lastMeasuredRowIndex, columns, lastPass>>
    ELSE IF point = "rowHeight"
         THEN /\ lastOp' = OpOn(name, id, <<"registry", "hydrateRowsMeta">>)
              /\ Hydrated(rowsHeightLookup, props, props.rows, procsAfter)
              /\ UNCHANGED columns
         ELSE /\ lastOp' = OpOn(name, id, <<"registry", "hydrateColumns", "columnsChange">>)
              /\ columns' = hydrateColumns(procsAfter, columns)
              /\ UNCHANGED <<rowsHeightLookup, rowsMeta, hasRowWithAutoHeight,
                             lastMeasuredRowIndex, lastPass>>

\* runAppliers(point) after a registry mutation: hydrateRowsMeta is the applier of
\* rowHeight, hydrateColumns the applier of hydrateColumns
RunAppliers(point, procsBefore, procsAfter, name, id) ==
    IF point = "rowHeight"
    THEN /\ lastOp' = OpOn(name, id, <<"registry", "hydrateRowsMeta">>)
         /\ Hydrated(rowsHeightLookup, props, props.rows, procsAfter)
         /\ UNCHANGED columns
    ELSE /\ lastOp' = OpOn(name, id, <<"registry", "hydrateColumns", "columnsChange">>)
         /\ columns' = hydrateColumns(procsAfter, columns)
         /\ UNCHANGED <<rowsHeightLookup, rowsMeta, hasRowWithAutoHeight, lastMeasuredRowIndex,
                        lastPass>>

-----------------------------------------------------------------------------
(* Operations *)

RegisterPipeProcessor(point, id, fn) ==
    /\ RunAppliers(point, processors, registerProcessor(processors, point, id, fn),
                   "registerPipeProcessor", id)
    /\ processors' = registerProcessor(processors, point, id, fn)
    /\ UNCHANGED <<props, debouncePending, staleDebounces, measuredWindow, exportedState>>

UnregisterPipeProcessor(point, id) ==
    /\ RunAppliers(point, processors, unregisterProcessor(processors, point, id),
                   "unregisterPipeProcessor", id)
    /\ processors' = unregisterProcessor(processors, point, id)
    /\ UNCHANGED <<props, debouncePending, staleDebounces, measuredWindow, exportedState>>

\* the effect of lines 280-282 run again with the same hydrateRowsMeta
\* (filter, sorting or pagination state changed, the visible rows did not)
RowsMetaEffect ==
    /\ Hydrated(rowsHeightLookup, props, props.rows, processors)
    /\ lastOp' = Op("render", <<"hydrateRowsMeta">>)
    /\ UNCHANGED <<processors, props, debouncePending, staleDebounces, columns,
                   measuredWindow, exportedState>>

\* a render with a changed dependency of hydrateRowsMeta: a new hydrateRowsMeta and
\* a new debounced function are built, the timer of the replaced one stays set, and
\* the effect of lines 280-282 runs the new hydrateRowsMeta
PropsChange(newProps) ==
    /\ debouncePending => Len(staleDebounces) < MaxStale
    /\ props' = newProps
    /\ staleDebounces' = IF debouncePending THEN Append(staleDebounces, props)
                         ELSE staleDebounces
    /\ debouncePending' = FALSE
    /\ Hydrated(rowsHeightLookup, newProps, newProps.rows, processors)
    /\ lastOp' = Op("render", <<"hydrateRowsMeta">>)
    /\ UNCHANGED <<processors, columns, measuredWindow, exportedState>>

\* the cache after the writes of setRowHeight(id, height)
resizedEntry(entry, height) ==
    [entry EXCEPT !.sizes = Put(@, "baseCenter", height),
                  !.isResized = TRUE,
                  !.needsFirstMeasurement = FALSE]

\* setRowHeight(id, height) that leaves the recomputation to the debounced pass
SetRowHeightDebounced(id, height) ==
    /\ id \in DOMAIN rowsHeightLookup
    /\ lastOp' = Op("setRowHeight", <<"schedule">>)
    /\ rowsHeightLookup' = [rowsHeightLookup EXCEPT ![id] = resizedEntry(@, height)]
    /\ debouncePending' = TRUE
    /\ UNCHANGED <<processors, props, staleDebounces, columns, measuredWindow,
                   lastMeasuredRowIndex, hasRowWithAutoHeight, rowsMeta, exportedState,
                   lastPass>>

\* setRowHeight(id, height); it throws on a row that has no entry
SetRowHeight(id, height) ==
    /\ id \in DOMAIN rowsHeightLookup
    /\ Hydrated([rowsHeightLookup EXCEPT ![id] = resizedEntry(@, height)],
                props, props.rows, processors)
    /\ lastOp' = Op("setRowHeight", <<"hydrateRowsMeta">>)
    /\ UNCHANGED <<processors, props, debouncePending, staleDebounces, columns,
                   measuredWindow, exportedState>>

\* storeRowHeightMeasurement(id, height, position) that leaves needsFirstMeasurement
\* as it is
StoreKeepingFirstMeasurementFlag(id, height, position) ==
    IF id \notin DOMAIN rowsHeightLookup \/ ~rowsHeightLookup[id].autoHeight
    THEN /\ lastOp' = Op("storeRowHeightMeasurement", << >>)
         /\ UNCHANGED <<processors, rowsHeightLookup, lastMeasuredRowIndex,
                        hasRowWithAutoHeight, rowsMeta, props, debouncePending,
                        staleDebounces, columns, measuredWindow, exportedState,
                        lastPass>>
    ELSE /\ lastOp' = Op("storeRowHeightMeasurement", <<"schedule">>)
         /\ rowsHeightLookup' =
                [rowsHeightLookup EXCEPT ![id].sizes = Put(@, BaseKeyOf(position), height)]
         /\ debouncePending' = TRUE
         /\ measuredWindow' = measuredWindow \cup {id}
         /\ UNCHANGED <<processors, lastMeasuredRowIndex, hasRowWithAutoHeight,
                        rowsMeta, props, staleDebounces, columns, exportedState,
                        lastPass>>

\* storeRowHeightMeasurement(id, height, position) that takes the measurement of
\* every row of the cache, auto height or not
StoreWithoutAutoHeightCheck(id, height, position) ==
    IF id \notin DOMAIN rowsHeightLookup
    THEN /\ lastOp' = Op("storeRowHeightMeasurement", << >>)
         /\ UNCHANGED <<processors, rowsHeightLookup, lastMeasuredRowIndex,
                        hasRowWithAutoHeight, rowsMeta, props, debouncePending,
                        staleDebounces, columns, measuredWindow, exportedState,
                        lastPass>>
    ELSE /\ lastOp' = Op("storeRowHeightMeasurement", <<"schedule">>)
         /\ rowsHeightLookup' =
                [rowsHeightLookup EXCEPT ![id].needsFirstMeasurement = FALSE,
                                         ![id].sizes = Put(@, BaseKeyOf(position), height)]
         /\ debouncePending' = TRUE
         /\ measuredWindow' = measuredWindow \cup {id}
         /\ UNCHANGED <<processors, lastMeasuredRowIndex, hasRowWithAutoHeight,
                        rowsMeta, props, staleDebounces, columns, exportedState,
                        lastPass>>

\* storeRowHeightMeasurement(id, height, position) that schedules a hydration for
\* every measurement of an auto height row
StoreSchedulingAlways(id, height, position) ==
    IF id \notin DOMAIN rowsHeightLookup \/ ~rowsHeightLookup[id].autoHeight
    THEN /\ lastOp' = Op("storeRowHeightMeasurement", << >>)
         /\ UNCHANGED <<processors, rowsHeightLookup, lastMeasuredRowIndex,
                        hasRowWithAutoHeight, rowsMeta, props, debouncePending,
                        staleDebounces, columns, measuredWindow, exportedState,
                        lastPass>>
    ELSE /\ lastOp' = Op("storeRowHeightMeasurement", <<"schedule">>)
         /\ rowsHeightLookup' =
                [rowsHeightLookup EXCEPT ![id].needsFirstMeasurement = FALSE,
                                         ![id].sizes = Put(@, BaseKeyOf(position), height)]
         /\ debouncePending' = TRUE
         /\ measuredWindow' = measuredWindow \cup {id}
         /\ UNCHANGED <<processors, lastMeasuredRowIndex, hasRowWithAutoHeight,
                        rowsMeta, props, staleDebounces, columns, exportedState,
                        lastPass>>

\* storeRowHeightMeasurement(id, height, position)
StoreMeasuredRowHeight(id, height, position) ==
    IF id \notin DOMAIN rowsHeightLookup \/ ~rowsHeightLookup[id].autoHeight
    THEN /\ lastOp' = Op("storeRowHeightMeasurement", << >>)
         /\ UNCHANGED <<processors, rowsHeightLookup, lastMeasuredRowIndex,
                        hasRowWithAutoHeight, rowsMeta, props, debouncePending,
                        staleDebounces, columns, measuredWindow, exportedState,
                        lastPass>>
    ELSE LET key == BaseKeyOf(position)
             sizes == rowsHeightLookup[id].sizes
             needsHydration == (key \notin DOMAIN sizes) \/ sizes[key] # height
         IN  /\ rowsHeightLookup' =
                    [rowsHeightLookup EXCEPT ![id].needsFirstMeasurement = FALSE,
                                             ![id].sizes = Put(@, key, height)]
             /\ debouncePending' = (debouncePending \/ needsHydration)
             /\ measuredWindow' = IF needsHydration THEN measuredWindow \cup {id}
                                  ELSE measuredWindow
             /\ lastOp' = Op("storeRowHeightMeasurement", IF needsHydration THEN <<"schedule">> ELSE << >>)
             /\ UNCHANGED <<processors, lastMeasuredRowIndex, hasRowWithAutoHeight,
                            rowsMeta, props, staleDebounces, columns, exportedState,
                            lastPass>>

\* the timer of a replaced debounced function fires: the hydrateRowsMeta it holds runs
StaleDebounceFires ==
    /\ staleDebounces # << >>
    /\ Hydrated(rowsHeightLookup, Head(staleDebounces), props.rows, processors)
    /\ staleDebounces' = Tail(staleDebounces)
    /\ measuredWindow' = IF Len(staleDebounces) = 1 /\ ~debouncePending THEN {}
                         ELSE measuredWindow
    /\ lastOp' = Op("staleDebounce", <<"hydrateRowsMeta">>)
    /\ UNCHANGED <<processors, props, debouncePending, columns, exportedState>>

\* the timer of the current debounced function fires; timers set earlier fire first
DebounceFires ==
    /\ debouncePending
    /\ staleDebounces = << >>
    /\ Hydrated(rowsHeightLookup, props, props.rows, processors)
    /\ debouncePending' = FALSE
    /\ measuredWindow' = {}
    /\ lastOp' = Op("debounce", <<"hydrateRowsMeta">>)
    /\ UNCHANGED <<processors, props, staleDebounces, columns, exportedState>>

\* setLastMeasuredRowIndex(index) that stores whatever index it is given
SetLastMeasuredRowIndexUnguarded(index) ==
    /\ lastMeasuredRowIndex' = index
    /\ lastOp' = Op("setLastMeasuredRowIndex", << >>)
    /\ UNCHANGED <<processors, rowsHeightLookup, hasRowWithAutoHeight, rowsMeta, props,
                   debouncePending, staleDebounces, columns, measuredWindow,
                   exportedState, lastPass>>

\* setLastMeasuredRowIndex(index)
SetLastMeasuredRowIndex(index) ==
    /\ lastMeasuredRowIndex' =
           IF hasRowWithAutoHeight /\ index > lastMeasuredRowIndex THEN index
           ELSE lastMeasuredRowIndex
    /\ lastOp' = Op("setLastMeasuredRowIndex", << >>)
    /\ UNCHANGED <<processors, rowsHeightLookup, hasRowWithAutoHeight, rowsMeta, props,
                   debouncePending, staleDebounces, columns, measuredWindow,
                   exportedState, lastPass>>

\* resetRowHeights() that hydrates over the cache as it is
ResetWithoutClearing ==
    /\ Hydrated(rowsHeightLookup, props, props.rows, processors)
    /\ lastOp' = Op("resetRowHeights", <<"hydrateRowsMeta">>)
    /\ UNCHANGED <<processors, props, debouncePending, staleDebounces, columns,
                   measuredWindow, exportedState>>

\* resetRowHeights()
ResetRowHeights ==
    /\ Hydrated(<< >>, props, props.rows, processors)
    /\ lastOp' = Op("resetRowHeights", <<"hydrateRowsMeta">>)
    /\ UNCHANGED <<processors, props, debouncePending, staleDebounces, columns,
                   measuredWindow, exportedState>>

\* setColumnVisibilityModel(model); sameReference: the model is the object the
\* state holds (currentModel !== model is a comparison of references)
SetColumnVisibilityModel(model, sameReference) ==
    /\ sameReference => model = columns.columnVisibilityModel
    /\ lastOp' = Op("setColumnVisibilityModel", << >>)
    /\ columns' = IF sameReference THEN columns
                  ELSE hydrateColumns(processors,
                                      [columns EXCEPT !.columnVisibilityModel = model])
    /\ UNCHANGED <<processors, rowsHeightLookup, lastMeasuredRowIndex,
                   hasRowWithAutoHeight, rowsMeta, props, debouncePending,
                   staleDebounces, measuredWindow, exportedState, lastPass>>

\* columnVisibilityModel[field] ?? true
isCurrentlyVisible(model, field) ==
    IF field \in DOMAIN model THEN model[field] ELSE TRUE

\* setColumnVisibility(field, isVisible): a new model object is handed to
\* setColumnVisibilityModel when the visibility of the field changes
SetColumnVisibility(field, isVisible) ==
    /\ lastOp' = Op("setColumnVisibility", << >>)
    /\ columns' =
          IF isVisible # isCurrentlyVisible(columns.columnVisibilityModel, field)
          THEN hydrateColumns(processors,
                   [columns EXCEPT !.columnVisibilityModel =
                       [f \in DOMAIN @ \cup {field} |->
                           IF f = field THEN isVisible ELSE @[f]]])
          ELSE columns
    /\ UNCHANGED <<processors, rowsHeightLookup, lastMeasuredRowIndex,
                   hasRowWithAutoHeight, rowsMeta, props, debouncePending,
                   staleDebounces, measuredWindow, exportedState, lastPass>>

\* setColumnWidth(field, width) that publishes columnWidthChange before updateColumns
SetColumnWidthPublishingFirst(field, width, hasBeenResized) ==
    /\ field \in DOMAIN columns.dimensions
    /\ hasBeenResized \in {columns.dimensions[field].hasBeenResized, TRUE}
    /\ lastOp' = Op("setColumnWidth", <<"columnWidthChange", "columnsChange">>)
    /\ columns' = hydrateColumns(processors,
                      [columns EXCEPT !.dimensions[field] =
                          [@ EXCEPT !.width = width,
                                    !.hasBeenResized = hasBeenResized]])
    /\ UNCHANGED <<processors, rowsHeightLookup, lastMeasuredRowIndex,
                   hasRowWithAutoHeight, rowsMeta, props, debouncePending,
                   staleDebounces, measuredWindow, exportedState, lastPass>>

\* setColumnWidth(field, width) for a field of the lookup: updateColumns upserts the
\* column with the width and calls setGridColumnsState; hasBeenResized is the flag
\* createColumnsState leaves on the column, the one it had or true
SetColumnWidth(field, width, hasBeenResized) ==
    /\ field \in DOMAIN columns.dimensions
    /\ hasBeenResized \in {columns.dimensions[field].hasBeenResized, TRUE}
    /\ lastOp' = Op("setColumnWidth", <<"columnsChange", "columnWidthChange">>)
    /\ columns' = hydrateColumns(processors,
                      [columns EXCEPT !.dimensions[field] =
                          [@ EXCEPT !.width = width,
                                    !.hasBeenResized = hasBeenResized]])
    /\ UNCHANGED <<processors, rowsHeightLookup, lastMeasuredRowIndex,
                   hasRowWithAutoHeight, rowsMeta, props, debouncePending,
                   staleDebounces, measuredWindow, exportedState, lastPass>>

\* updatedColumns of setColumnIndex: the element at oldIndexPosition taken out and
\* put back at targetIndexPosition
updatedColumns(allColumns, oldIndexPosition, targetIndexPosition) ==
    spliceInsert(spliceOne(allColumns, oldIndexPosition), targetIndexPosition,
                 spliceRemoved(allColumns, oldIndexPosition))

\* setColumnIndex(field, targetIndexPosition) that exchanges the fields at the two
\* indexes
SetColumnIndexBySwap(field, targetIndexPosition) ==
    /\ lastOp' = IF FindIndex(columns.orderedFields, field) = targetIndexPosition
                 THEN Op("setColumnIndex", << >>)
                 ELSE Op("setColumnIndex", <<"columnsChange", "columnOrderChange">>)
    /\ columns' =
          IF \/ FindIndex(columns.orderedFields, field) = targetIndexPosition
             \/ FindIndex(columns.orderedFields, field) < 0
             \/ targetIndexPosition < 0
             \/ targetIndexPosition >= Len(columns.orderedFields)
          THEN columns
          ELSE [columns EXCEPT !.orderedFields =
                   [@ EXCEPT ![FindIndex(columns.orderedFields, field) + 1] =
                                 columns.orderedFields[targetIndexPosition + 1],
                             ![targetIndexPosition + 1] = field]]
    /\ UNCHANGED <<processors, rowsHeightLookup, lastMeasuredRowIndex,
                   hasRowWithAutoHeight, rowsMeta, props, debouncePending,
                   staleDebounces, measuredWindow, exportedState, lastPass>>

\* setColumnIndex(field, targetIndexPosition)
SetColumnIndex(field, targetIndexPosition) ==
    /\ lastOp' = IF FindIndex(columns.orderedFields, field) = targetIndexPosition
                 THEN Op("setColumnIndex", << >>)
                 ELSE Op("setColumnIndex", <<"columnsChange", "columnOrderChange">>)
    /\ columns' =
          IF FindIndex(columns.orderedFields, field) = targetIndexPosition
          THEN columns
          ELSE [columns EXCEPT !.orderedFields =
                   updatedColumns(@, FindIndex(columns.orderedFields, field),
                                  targetIndexPosition)]
    /\ UNCHANGED <<processors, rowsHeightLookup, lastMeasuredRowIndex,
                   hasRowWithAutoHeight, rowsMeta, props, debouncePending,
                   staleDebounces, measuredWindow, exportedState, lastPass>>

\* shouldExportColumnVisibilityModel
shouldExportColumnVisibilityModel(columnsState, closure, exportOnlyDirtyModels) ==
    \/ ~exportOnlyDirtyModels
    \/ closure.columnVisibilityModel # "absent"
    \/ Cardinality(DOMAIN closure.initialColumnVisibilityModel) > 0
    \/ Cardinality(DOMAIN columnsState.columnVisibilityModel) > 0

\* the columns of gridColumnDefinitionsSelector that are flagged hasBeenResized
resizedColumns(columnsState) ==
    { f \in DOMAIN columnsState.dimensions \cap Range(columnsState.orderedFields) :
        columnsState.dimensions[f].hasBeenResized }

\* colDefDimensions of every column, resized or not
dimensionsOfAllColumns(columnsState) ==
    [f \in DOMAIN columnsState.dimensions \cap Range(columnsState.orderedFields) |->
        [propertyName \in COLUMNS_DIMENSION_PROPERTIES |->
            IF columnsState.dimensions[f][propertyName] = Infinity THEN -1
            ELSE columnsState.dimensions[f][propertyName]]]

\* dimensions: colDefDimensions of the resized columns, Infinity exported as -1
dimensionsToExport(columnsState) ==
    [f \in resizedColumns(columnsState) |->
        [propertyName \in COLUMNS_DIMENSION_PROPERTIES |->
            IF columnsState.dimensions[f][propertyName] = Infinity THEN -1
            ELSE columnsState.dimensions[f][propertyName]]]

\* the keys of columnsStateToExport
exportedKeys(columnsState, closure, exportOnlyDirtyModels) ==
    {"orderedFields"}
    \cup (IF shouldExportColumnVisibilityModel(columnsState, closure, exportOnlyDirtyModels)
          THEN {"columnVisibilityModel"} ELSE {})
    \cup (IF DOMAIN dimensionsToExport(columnsState) # {} THEN {"dimensions"} ELSE {})

\* stateExportPreProcessing: columnsStateToExport
stateExportPreProcessing(columnsState, closure, exportOnlyDirtyModels) ==
    [key \in exportedKeys(columnsState, closure, exportOnlyDirtyModels) |->
        CASE key = "orderedFields" -> columnsState.orderedFields
          [] key = "columnVisibilityModel" -> columnsState.columnVisibilityModel
          [] key = "dimensions" -> dimensionsToExport(columnsState)]

\* exportState({ exportOnlyDirtyModels }): the columns section of the result
ExportState(exportOnlyDirtyModels) ==
    /\ lastOp' = Op("exportState",
                    IF exportOnlyDirtyModels THEN <<"exportOnlyDirtyModels">> ELSE << >>)
    /\ exportedState' = stateExportPreProcessing(columns, props, exportOnlyDirtyModels)
    /\ UNCHANGED <<processors, rowsHeightLookup, lastMeasuredRowIndex,
                   hasRowWithAutoHeight, rowsMeta, props, debouncePending,
                   staleDebounces, columns, measuredWindow, lastPass>>

-----------------------------------------------------------------------------
(* Specifications *)

\* the closures a render with new visible rows can bring
PageChangesOf(closure) == {[closure EXCEPT !.rows = pg] : pg \in Pages}

\* the closures a render with a new prop or density can bring
PropChangesOf(closure) ==
    {[closure EXCEPT !.rowHeightFromDensity = d] : d \in Densities}
    \cup {[closure EXCEPT !.getRowHeight = g] : g \in RowHeightProps}
    \cup {[closure EXCEPT !.getEstimatedRowHeight = e] : e \in EstimatedRowHeightProps}

\* the closures a render with a new getRowHeight prop can bring
ProviderChangesOf(closure) == {[closure EXCEPT !.getRowHeight = g] : g \in RowHeightProps}

\* rows meta under measurements, resizes and changes of the visible rows
Next ==
    \/ RowsMetaEffect
    \/ \E newProps \in PageChangesOf(props) : PropsChange(newProps)
    \/ \E id \in DataRows, height \in Heights : SetRowHeight(id, height)
    \/ \E id \in DataRows, height \in Heights :
          StoreMeasuredRowHeight(id, height, "center")
    \/ StaleDebounceFires
    \/ DebounceFires
    \/ ResetRowHeights

Spec == Init /\ [][Next]_vars

\* rows meta under resizes and changes of the visible rows and of the props
NextProps ==
    \/ RowsMetaEffect
    \/ \E newProps \in PageChangesOf(props) \cup PropChangesOf(props) : PropsChange(newProps)
    \/ \E id \in RowIds, height \in Heights : SetRowHeight(id, height)
    \/ ResetRowHeights

SpecProps == Init /\ [][NextProps]_vars

\* the first render with two visible rows
InitPipe ==
    /\ Init
    /\ props.rows = <<"r1", "r2">>
    /\ props.getRowHeight \in {"auto", "number"}

\* rows meta with the registry of both extension points, under measurements and resizes
NextPipe ==
    \/ \E point \in Points, id \in ProcessorIds :
          \E fn \in FnsOf(point) : RegisterPipeProcessor(point, id, fn)
    \/ \E point \in Points, id \in ProcessorIds : UnregisterPipeProcessor(point, id)
    \/ RowsMetaEffect
    \/ \E height \in Heights : SetRowHeight("r1", height)
    \/ \E id \in DataRows, height \in Heights :
          StoreMeasuredRowHeight(id, height, "center")
    \/ DebounceFires

SpecPipe == InitPipe /\ [][NextPipe]_vars

\* the registry with both extension points, under renders and measurements of a row
NextRegistry ==
    \/ \E point \in Points, id \in ProcessorIds :
          \E fn \in FnsOf(point) : RegisterPipeProcessor(point, id, fn)
    \/ \E point \in Points, id \in ProcessorIds : UnregisterPipeProcessor(point, id)
    \/ RowsMetaEffect
    \/ \E height \in Heights : StoreMeasuredRowHeight("r1", height, "center")
    \/ DebounceFires

SpecRegistry == InitPipe /\ [][NextRegistry]_vars

\* rows meta under measurements at both positions, resets and changes of the
\* visible rows
NextMeasure ==
    \/ RowsMetaEffect
    \/ \E newProps \in PageChangesOf(props) : PropsChange(newProps)
    \/ \E id \in DataRows, height \in Heights, position \in Positions :
          StoreMeasuredRowHeight(id, height, position)
    \/ StaleDebounceFires
    \/ DebounceFires
    \/ ResetRowHeights

SpecMeasure == Init /\ [][NextMeasure]_vars

\* the watermark under renders with new rows or props, resets and
\* setLastMeasuredRowIndex
NextWatermark ==
    \/ RowsMetaEffect
    \/ \E newProps \in PageChangesOf(props) \cup PropChangesOf(props) : PropsChange(newProps)
    \/ \E index \in Indexes : SetLastMeasuredRowIndex(index)
    \/ ResetRowHeights

SpecWatermark == Init /\ [][NextWatermark]_vars

\* rows meta under measurements, a resized row and changes of the getRowHeight prop
NextProvider ==
    \/ RowsMetaEffect
    \/ \E newProps \in ProviderChangesOf(props) : PropsChange(newProps)
    \/ \E height \in Heights : SetRowHeight("r1", height)
    \/ \E id \in DataRows, height \in Heights :
          StoreMeasuredRowHeight(id, height, "center")
    \/ StaleDebounceFires
    \/ DebounceFires

SpecProvider == Init /\ [][NextProvider]_vars

\* the columns under setColumnIndex and the registry of the hydrateColumns point
NextColumns ==
    \/ \E id \in ProcessorIds, fn \in FnsOf("hydrateColumns") :
          RegisterPipeProcessor("hydrateColumns", id, fn)
    \/ \E id \in ProcessorIds : UnregisterPipeProcessor("hydrateColumns", id)
    \/ \E field \in ColumnFields, targetIndexPosition \in TargetIndexes :
          SetColumnIndex(field, targetIndexPosition)

\* the first render of a grid whose props.columns is empty or declares two columns
InitColumns ==
    /\ processors = [point \in Points |-> << >>]
    /\ rowsHeightLookup = << >>
    /\ lastMeasuredRowIndex = -1
    /\ hasRowWithAutoHeight = FALSE
    /\ rowsMeta = [currentPageTotalHeight |-> 0, positions |-> << >>]
    /\ props \in InitialProps
    /\ debouncePending = FALSE
    /\ staleDebounces = << >>
    /\ columns \in { [orderedFields |-> << >>, lookup |-> {},
                       columnVisibilityModel |-> << >>, dimensions |-> << >>],
                      [orderedFields |-> <<"name", "age">>, lookup |-> {"name", "age"},
                       columnVisibilityModel |-> << >>,
                       dimensions |-> [f \in DeclaredFields |->
                                          [width |-> 1, maxWidth |-> Infinity, hasBeenResized |-> FALSE]]] }
    /\ lastOp = Op("init", << >>)
    /\ measuredWindow = {}
    /\ exportedState = << >>
    /\ lastPass = "none"

SpecColumns == InitColumns /\ [][NextColumns]_vars

\* the columns under the setters of the column api
NextColumnApi ==
    \/ \E model \in VisibilityModels, sameReference \in BOOLEAN :
          SetColumnVisibilityModel(model, sameReference)
    \/ \E field \in DeclaredFields, isVisible \in BOOLEAN :
          SetColumnVisibility(field, isVisible)
    \/ \E field \in ColumnFields, targetIndexPosition \in TargetIndexes :
          SetColumnIndex(field, targetIndexPosition)
    \/ \E field \in DeclaredFields, width \in ColumnWidths, hasBeenResized \in BOOLEAN :
          SetColumnWidth(field, width, hasBeenResized)

SpecColumnApi == Init /\ [][NextColumnApi]_vars

\* the registrant id of useGridDetailPanelPreProcessors
DetailPanelHook == "a"

\* the columns of a grid with the detail panel hook: getDetailPanelContent switched
\* on and off, which registers addToggleColumn again, column hydrations through the
\* visibility setter, and setColumnIndex
NextDetailPanel ==
    \/ \E fn \in HydrateColumnsFns :
          RegisterPipeProcessor("hydrateColumns", DetailPanelHook, fn)
    \/ \E field \in DeclaredFields, isVisible \in BOOLEAN :
          SetColumnVisibility(field, isVisible)
    \/ \E field \in ColumnFields, targetIndexPosition \in TargetIndexes :
          SetColumnIndex(field, targetIndexPosition)

SpecDetailPanel == InitColumns /\ [][NextDetailPanel]_vars

\* the first render of a grid of two columns, with or without a controlled or an
\* initial column visibility model
InitExport ==
    /\ processors = [point \in Points |-> << >>]
    /\ rowsHeightLookup = << >>
    /\ lastMeasuredRowIndex = -1
    /\ hasRowWithAutoHeight = FALSE
    /\ rowsMeta = [currentPageTotalHeight |-> 0, positions |-> << >>]
    /\ props \in { p \in PropsSpace :
                     /\ p.rows = <<"r1", "r2">>
                     /\ p.getRowHeight = "absent"
                     /\ p.pinnedRows = [top |-> << >>, bottom |-> << >>]
                     /\ p.rowHeightFromDensity = 2
                     /\ p.getEstimatedRowHeight = "absent"
                     /\ p.getRowSpacing = "absent" }
    /\ debouncePending = FALSE
    /\ staleDebounces = << >>
    /\ \E model \in (IF props.columnVisibilityModel = "absent"
                       THEN {props.initialColumnVisibilityModel}
                       ELSE InitialVisibilityModels) :
          columns = [orderedFields |-> <<"name", "age">>, lookup |-> {"name", "age"},
                     columnVisibilityModel |-> model,
                     dimensions |-> [f \in DeclaredFields |->
                                        [width |-> 1, maxWidth |-> Infinity,
                                         hasBeenResized |-> FALSE]]]
    /\ lastOp = Op("init", << >>)
    /\ measuredWindow = {}
    /\ exportedState = << >>
    /\ lastPass = "none"

\* exports of the columns state under the visibility and the width setters
NextExport ==
    \/ \E field \in DeclaredFields, isVisible \in BOOLEAN :
          SetColumnVisibility(field, isVisible)
    \/ \E field \in DeclaredFields, width \in ColumnWidths, hasBeenResized \in BOOLEAN :
          SetColumnWidth(field, width, hasBeenResized)
    \/ \E exportOnlyDirtyModels \in ExportContexts : ExportState(exportOnlyDirtyModels)

SpecExport == InitExport /\ [][NextExport]_vars

\* the height that the content of a rendered row has
ContentHeight(id) == IF id = "r1" THEN 1 ELSE MaxHeight

\* the effect hydrates, the rendered rows report their height, which does not
\* change, and the debounced hydration runs when its timer fires
NextCycle ==
    \/ RowsMetaEffect
    \/ \E i \in 1..Len(props.rows), position \in Positions :
          StoreMeasuredRowHeight(props.rows[i], ContentHeight(props.rows[i]), position)
    \/ DebounceFires

\* what a DebounceFires step does to the timer
DebounceTimerElapses ==
    /\ debouncePending
    /\ staleDebounces = << >>
    /\ debouncePending' = FALSE

\* the debounce timer, once set, fires: the steps of NextCycle that clear
\* debouncePending are the DebounceFires steps
SpecCycle == Init /\ [][NextCycle]_vars /\ WF_debouncePending(DebounceTimerElapses)

\* height argument of setRowHeight: heights that no measurement delivers
ResizedHeights == {MaxHeight + 1, MaxHeight + 2}

\* rows meta under resizes of rows to heights of their own, measurements, renders
\* with other rows and resets
NextResize ==
    \/ RowsMetaEffect
    \/ \E newProps \in PageChangesOf(props) : PropsChange(newProps)
    \/ \E id \in DataRows, height \in ResizedHeights : SetRowHeight(id, height)
    \/ \E id \in DataRows, height \in Heights :
          StoreMeasuredRowHeight(id, height, "center")
    \/ StaleDebounceFires
    \/ DebounceFires
    \/ ResetRowHeights

SpecResize == Init /\ [][NextResize]_vars

\* measured heights of a row section that is taller than the number the
\* getRowHeight prop returns
TallHeights == {getRowHeightProp([getRowHeight |-> "number"], "r1").value + h : h \in Heights}

\* rows meta under measurements of the sections of a row and renders with another
\* getRowHeight prop
NextSections ==
    \/ RowsMetaEffect
    \/ \E newProps \in ProviderChangesOf(props) : PropsChange(newProps)
    \/ \E id \in DataRows, height \in TallHeights, position \in Positions :
          StoreMeasuredRowHeight(id, height, position)
    \/ StaleDebounceFires
    \/ DebounceFires

SpecSections == Init /\ [][NextSections]_vars

\* the owner of the rowHeight processor that may throw
ThrowingHook == "a"

\* rows meta with a rowHeight processor that may throw, under renders, resizes,
\* measurements and resets
NextThrow ==
    \/ \E fn \in {"setDetail", ThrowingFn} :
          RegisterPipeProcessor("rowHeight", ThrowingHook, fn)
    \/ UnregisterPipeProcessor("rowHeight", ThrowingHook)
    \/ RowsMetaEffect
    \/ \E newProps \in PageChangesOf(props) : PropsChange(newProps)
    \/ \E height \in Heights : SetRowHeight("r1", height)
    \/ \E height \in Heights : StoreMeasuredRowHeight("r1", height, "center")
    \/ DebounceFires
    \/ ResetRowHeights

SpecThrow == InitPipe /\ [][NextThrow]_vars

-----------------------------------------------------------------------------
(* Pipe processing registry: claims C1 to C4 *)

\* f_n(... f_2(f_1(value))) for the processors f_1 .. f_n of list
RECURSIVE LeftFold(_, _)
LeftFold(list, value) ==
    IF list = << >> THEN value
    ELSE RunProcessor(list[Len(list)].fn,
                      LeftFold(SubSeq(list, 1, Len(list) - 1), value))

\* initial values handed to applyPipeProcessors
SampleValues(point) ==
    IF point = "rowHeight"
    THEN { [k \in {"baseCenter"} |-> 2],
           [k \in {"baseCenter", "detail"} |-> 1] }
    ELSE { [orderedFields |-> <<"name">>, lookup |-> {"name"}],
           [orderedFields |-> <<"name", GRID_DETAIL_PANEL_TOGGLE_FIELD>>,
            lookup |-> {"name", GRID_DETAIL_PANEL_TOGGLE_FIELD}] }

ApplyIsLeftFold ==
    \A point \in Points : \A value \in SampleValues(point) :
        applyPipeProcessors(processors, point, value) = LeftFold(processors[point], value)

\* after is before with (id, fn) put at the position id had, or at the end
RegisteredInPlace(before, after, id, fn) ==
    IF \E i \in DOMAIN before : before[i].id = id
    THEN /\ Len(after) = Len(before)
         /\ \A i \in DOMAIN before :
               after[i] = IF before[i].id = id THEN [id |-> id, fn |-> fn] ELSE before[i]
    ELSE after = Append(before, [id |-> id, fn |-> fn])

\* C1: applyPipeProcessors(point, v0) is the left fold of the registered processors
\* over v0 in registration order, and registerPipeProcessor of an id that is
\* already registered replaces its function at the position it has, while a new id
\* goes to the end.
C1_ApplyFoldsInRegistrationOrder ==
    [][\A point \in Points, id \in ProcessorIds : \A fn \in FnsOf(point) :
          RegisterPipeProcessor(point, id, fn) =>
              /\ RegisteredInPlace(processors[point], processors'[point], id, fn)
              /\ ApplyIsLeftFold']_vars

\* "a" was registered again while "b" stays behind it, and the row heights are
\* setDetail then bumpDetail
C1_Witness ==
    /\ lastOp.op = "registerPipeProcessor"
    /\ lastOp.arg = "a"
    /\ processors["rowHeight"] = << [id |-> "a", fn |-> "setDetail"],
                                    [id |-> "b", fn |-> "bumpDetail"] >>
    /\ "r1" \in DOMAIN rowsHeightLookup
    /\ "detail" \in DOMAIN rowsHeightLookup["r1"].sizes
    /\ rowsHeightLookup["r1"].sizes["detail"] = 3

\* 1-based position of id in list, 0 when it is not registered
IndexOfId(list, id) ==
    IF \E i \in DOMAIN list : list[i].id = id
    THEN CHOOSE i \in DOMAIN list : list[i].id = id
    ELSE 0

\* list without the entry of id, the others in their order
WithoutId(list, id) ==
    IF IndexOfId(list, id) = 0 THEN list ELSE RemoveAt(list, IndexOfId(list, id))

\* C2: unregisterPipeProcessor(point, id) removes exactly the processor of
\* (point, id): the other processors of the point keep their relative order and the
\* processors of every other point are unchanged.
C2_UnregisterRemovesOnlyThatProcessor ==
    [][\A point \in Points, id \in ProcessorIds :
          UnregisterPipeProcessor(point, id) =>
              /\ processors'[point] = WithoutId(processors[point], id)
              /\ \A i \in DOMAIN processors'[point] : processors'[point][i].id # id
              /\ \A other \in Points \ {point} : processors'[other] = processors[other]]_vars

\* "b" was unregistered from hydrateColumns: "a" is still there and the rowHeight
\* processors are still two
C2_Witness ==
    /\ lastOp.op = "unregisterPipeProcessor"
    /\ lastOp.arg = "b"
    /\ lastOp.log = <<"registry", "hydrateColumns", "columnsChange">>
    /\ processors["hydrateColumns"] = << [id |-> "a", fn |-> "addToggleColumn:on"] >>
    /\ Len(processors["rowHeight"]) = 2

\* the applier registered for a point
ApplierOf(point) == IF point = "rowHeight" THEN "hydrateRowsMeta" ELSE "hydrateColumns"

\* number of times tag occurs in log
Count(log, tag) == Cardinality({i \in DOMAIN log : log[i] = tag})

\* C3: each registerPipeProcessor or unregisterPipeProcessor at a point runs the
\* applier of that point exactly once, after the registry has changed, and runs no
\* applier of another point: a change of the rowHeight processors runs
\* hydrateRowsMeta once, a change of the hydrateColumns processors runs the columns
\* hydration once.
C3_AppliersRunOncePerMutation ==
    [][\A point \in Points, id \in ProcessorIds :
          (\/ UnregisterPipeProcessor(point, id)
           \/ \E fn \in FnsOf(point) : RegisterPipeProcessor(point, id, fn)) =>
              /\ Count(lastOp'.log, ApplierOf(point)) = 1
              /\ \A other \in Points \ {point} : Count(lastOp'.log, ApplierOf(other)) = 0
              /\ lastOp'.log[1] = "registry"
              /\ lastOp'.log[2] = ApplierOf(point)
              /\ point = "rowHeight" => columns' = columns
              /\ point = "hydrateColumns" =>
                    /\ rowsMeta' = rowsMeta
                    /\ rowsHeightLookup' = rowsHeightLookup]_vars

\* "a" was unregistered from rowHeight and hydrateRowsMeta ran with "b" alone
C3_Witness ==
    /\ lastOp.op = "unregisterPipeProcessor"
    /\ lastOp.arg = "a"
    /\ lastOp.log = <<"registry", "hydrateRowsMeta">>
    /\ processors["rowHeight"] = << [id |-> "b", fn |-> "bumpDetail"] >>
    /\ "r1" \in DOMAIN rowsHeightLookup
    /\ "detail" \in DOMAIN rowsHeightLookup["r1"].sizes
    /\ rowsHeightLookup["r1"].sizes["detail"] = 1

\* the ids registered at a point
IdsAt(procs, point) == {procs[point][i].id : i \in DOMAIN procs[point]}

\* what the applier of point leaves when it runs over the registry procs
ApplierResultOver(point, procs) ==
    IF point = "rowHeight"
    THEN /\ rowsHeightLookup' =
                hydrateRowsMeta(rowsHeightLookup, props, props.rows, procs).lookup
         /\ rowsMeta' = hydrateRowsMeta(rowsHeightLookup, props, props.rows, procs).rowsMeta
    ELSE columns' = hydrateColumns(procs, columns)

-----------------------------------------------------------------------------
(* Rows meta: claims C5 to C8 *)

\* the handler that ran last ended with a hydrateRowsMeta pass
AfterPass == "hydrateRowsMeta" \in Range(lastOp.log)

\* the total height of a row as cached
CachedTotalHeight(row) ==
    IF row \in DOMAIN rowsHeightLookup THEN rowTotalHeight(rowsHeightLookup[row].sizes)
    ELSE -1

\* C5: after every hydrateRowsMeta pass, currentPageTotalHeight is positions[last]
\* plus the total height of the last row of the current page, and it is 0, with no
\* positions, when the current page has no rows.
C5_TotalHeightIsLastPositionPlusLastRow ==
    AfterPass =>
        IF props.rows = << >>
        THEN /\ rowsMeta.currentPageTotalHeight = 0
             /\ rowsMeta.positions = << >>
        ELSE /\ rowsMeta.positions # << >>
             /\ rowsMeta.currentPageTotalHeight =
                    rowsMeta.positions[Len(rowsMeta.positions)]
                    + CachedTotalHeight(props.rows[Len(props.rows)])

\* C6: after every hydrateRowsMeta pass, positions has one entry per row of the
\* current page (pinned rows add none), positions[0] = 0, the positions do not
\* decrease, and positions[i+1] - positions[i] is the total height of row i: the
\* maximum of its base sizes plus the sum of its other sizes.
C6_PositionsFollowTheRowsOfThePage ==
    AfterPass =>
        /\ Len(rowsMeta.positions) = Len(props.rows)
        /\ props.rows # << >> => rowsMeta.positions[1] = 0
        /\ \A i \in 1..(Len(props.rows) - 1) :
              /\ rowsMeta.positions[i + 1] >= rowsMeta.positions[i]
              /\ rowsMeta.positions[i + 1] - rowsMeta.positions[i]
                    = CachedTotalHeight(props.rows[i])

\* a pass over what a pass left gives the same positions, total height and cache
SameWhenRunAgain(once) ==
    /\ hydrateRowsMeta(once.lookup, props, props.rows, processors).rowsMeta = once.rowsMeta
    /\ hydrateRowsMeta(once.lookup, props, props.rows, processors).lookup = once.lookup

\* C7: hydrateRowsMeta is idempotent: run twice with no change of rows, props,
\* processors or cache in between, it leaves the positions, the total height and
\* the cache that one run leaves.
C7_HydrateRowsMetaIsIdempotent ==
    SameWhenRunAgain(hydrateRowsMeta(rowsHeightLookup, props, props.rows, processors))

\* a render ran hydrateRowsMeta again after the pass of the registration of
\* bumpDetail, with a measured auto-height row on the page
C7_Witness ==
    /\ lastOp.op = "render"
    /\ processors["rowHeight"] = << [id |-> "a", fn |-> "bumpDetail"] >>
    /\ props.rows = <<"r1", "r2">>
    /\ "r1" \in DOMAIN rowsHeightLookup
    /\ rowsHeightLookup["r1"].autoHeight
    /\ ~rowsHeightLookup["r1"].needsFirstMeasurement
    /\ "detail" \in DOMAIN rowsHeightLookup["r1"].sizes
    /\ rowsHeightLookup["r1"].sizes["detail"] = 1
    /\ rowsMeta.positions = <<0, 2>>

\* the resized rows of the cache keep their entry, flag and baseCenter
ResizedRowsKept(except) ==
    \A id \in (DOMAIN rowsHeightLookup) \ except :
        rowsHeightLookup[id].isResized =>
            /\ id \in DOMAIN rowsHeightLookup'
            /\ rowsHeightLookup'[id].isResized
            /\ rowsHeightLookup'[id].sizes["baseCenter"]
                  = rowsHeightLookup[id].sizes["baseCenter"]

\* C8: after setRowHeight(id, h) the row's baseCenter is h, and every later
\* hydrateRowsMeta pass leaves it at h, whatever getRowHeight (also 'auto') or the
\* density height now returns.
C8_ResizedHeightSurvivesHydration ==
    [][/\ \A id \in RowIds, h \in Heights :
             SetRowHeight(id, h) =>
                 /\ rowsHeightLookup'[id].isResized
                 /\ rowsHeightLookup'[id].sizes["baseCenter"] = h
                 /\ ResizedRowsKept({id})
       /\ lastOp'.op \in {"render", "debounce", "staleDebounce", "registerPipeProcessor",
                          "unregisterPipeProcessor"} => ResizedRowsKept({})]_vars

\* a render hydrated a page whose resized row keeps height 1 while getRowHeight
\* returns 4 for it
C8_Witness ==
    /\ lastOp.op = "render"
    /\ props.rows = <<"r1", "r2">>
    /\ props.getRowHeight = "number"
    /\ "r1" \in DOMAIN rowsHeightLookup
    /\ rowsHeightLookup["r1"].isResized
    /\ rowsHeightLookup["r1"].sizes["baseCenter"] = 1
    /\ rowsMeta.positions = <<0, 1>>

-----------------------------------------------------------------------------
(* Debounced recomputation: claims C9 and C10 *)

\* C9: measurements of N different auto-height rows, each different from the cached
\* value and all within one debounce window, cause exactly one hydrateRowsMeta
\* recomputation: after the second of them one recomputation is pending, not two.
C9_MeasurementsCoalesceIntoOneRecomputation ==
    Cardinality(measuredWindow) >= 2 => PendingRecomputations = 1

\* C10: the debounced recomputation is trailing-edge: a qualifying measurement
\* cancels the pending run and schedules one, so that exactly one is pending after
\* it, and when the pending run has fired no recomputation is pending.
C10_TrailingEdgeDebounce ==
    /\ (lastOp.op = "storeRowHeightMeasurement" /\ lastOp.log = <<"schedule">>)
          => PendingRecomputations = 1
    /\ lastOp.op \in {"debounce", "staleDebounce"} => PendingRecomputations = 0

-----------------------------------------------------------------------------
(* Measurements and resizes: claims C11 to C13 *)

\* the handlers that end with a hydrateRowsMeta pass over the cache as it is
PassOps == {"render", "debounce", "staleDebounce", "setRowHeight", "resetRowHeights",
            "registerPipeProcessor", "unregisterPipeProcessor"}

\* the closure whose hydrateRowsMeta the step runs
PassClosure == IF lastOp'.op = "staleDebounce" THEN Head(staleDebounces) ELSE props'

\* the rows a pass of the closure goes through
RowsOfPass(closure) ==
    Range(closure.rows) \cup Range(closure.pinnedRows.top)
    \cup Range(closure.pinnedRows.bottom)

\* after the step, the rows of the pass that are auto height and not yet measured
\* are at their estimate
UnmeasuredRowsAtEstimate(closure) ==
    \A row \in RowsOfPass(closure) :
        (/\ rowsHeightLookup'[row].autoHeight
         /\ rowsHeightLookup'[row].needsFirstMeasurement) =>
            rowsHeightLookup'[row].sizes["baseCenter"] = estimatedRowHeight(closure, row)

\* the step leaves every measured auto-height row its baseCenter
MeasuredHeightsKept ==
    \A id \in DOMAIN rowsHeightLookup :
        (/\ rowsHeightLookup[id].autoHeight
         /\ ~rowsHeightLookup[id].needsFirstMeasurement) =>
            /\ id \in DOMAIN rowsHeightLookup'
            /\ ~rowsHeightLookup'[id].needsFirstMeasurement
            /\ rowsHeightLookup'[id].sizes["baseCenter"]
                  = rowsHeightLookup[id].sizes["baseCenter"]

\* C11: a pass sets the baseCenter of an auto-height row that was never measured to
\* the estimate (getEstimatedRowHeight, or the density height without it);
\* storeRowHeightMeasurement(id, h, 'center') with h different from the cached value
\* stores h, clears needsFirstMeasurement and schedules the debounced pass, and that
\* pass leaves baseCenter = h and needsFirstMeasurement = false.
C11_MeasuredHeightReplacesEstimate ==
    [][/\ lastOp'.op \in PassOps => UnmeasuredRowsAtEstimate(PassClosure)
       /\ \A id \in DataRows, h \in Heights :
             (/\ lastOp'.log = <<"schedule">>
              /\ StoreMeasuredRowHeight(id, h, "center")) =>
                 /\ rowsHeightLookup'[id].sizes["baseCenter"] = h
                 /\ ~rowsHeightLookup'[id].needsFirstMeasurement
                 /\ debouncePending'
       /\ (lastOp'.op \in {"debounce", "staleDebounce"} /\ PassClosure.getRowHeight = "auto")
             => MeasuredHeightsKept]_vars

\* the debounced pass has run over a page whose first row was measured at 1 while
\* its estimate is 5
C11_Witness ==
    /\ lastOp.op = "debounce"
    /\ props.rows = <<"r1", "r2">>
    /\ props.getRowHeight = "auto"
    /\ props.getEstimatedRowHeight = "number"
    /\ rowsHeightLookup["r1"].autoHeight
    /\ ~rowsHeightLookup["r1"].needsFirstMeasurement
    /\ rowsHeightLookup["r1"].sizes["baseCenter"] = 1
    /\ rowsHeightLookup["r2"].needsFirstMeasurement
    /\ rowsHeightLookup["r2"].sizes["baseCenter"] = 5

\* C12: storeRowHeightMeasurement(id, height, position) for an id that has no entry
\* in the cache (a row dropped by a reset, say) or whose entry is not autoHeight
\* changes nothing: the cache is as it was and no hydration is scheduled or run.
C12_MeasurementOfUntrackedRowIsNoOp ==
    [][\A id \in DataRows, h \in Heights, position \in Positions :
          (/\ lastOp'.op = "storeRowHeightMeasurement"
           /\ (id \notin DOMAIN rowsHeightLookup \/ ~rowsHeightLookup[id].autoHeight)
           /\ StoreMeasuredRowHeight(id, h, position)) =>
              /\ rowsHeightLookup' = rowsHeightLookup
              /\ debouncePending' = debouncePending
              /\ staleDebounces' = staleDebounces
              /\ rowsMeta' = rowsMeta
              /\ lastOp'.log = << >>]_vars

\* a measurement arrived while r1 has no entry in the cache and r2 has one that is
\* not auto height: whichever row it was for, nothing is scheduled
C12_Witness ==
    /\ lastOp.op = "storeRowHeightMeasurement"
    /\ lastOp.log = << >>
    /\ "r1" \notin DOMAIN rowsHeightLookup
    /\ "r2" \in DOMAIN rowsHeightLookup
    /\ ~rowsHeightLookup["r2"].autoHeight
    /\ ~debouncePending

\* positions and currentPageTotalHeight are the ones of the cached sizes of the rows
\* of the current page
RowsMetaMatchesCache ==
    /\ Len(rowsMeta.positions) = Len(props.rows)
    /\ \A i \in 1..Len(props.rows) :
          /\ props.rows[i] \in DOMAIN rowsHeightLookup
          /\ rowsMeta.positions[i] =
                IF i = 1 THEN 0
                ELSE rowsMeta.positions[i - 1] + CachedTotalHeight(props.rows[i - 1])
    /\ rowsMeta.currentPageTotalHeight =
          IF props.rows = << >> THEN 0
          ELSE rowsMeta.positions[Len(props.rows)]
               + CachedTotalHeight(props.rows[Len(props.rows)])

\* C13: setRowHeight(id, h) on a tracked row sets isResized and baseCenter = h and
\* recomputes rowsMeta in the call itself, not debounced: when it returns, positions
\* and currentPageTotalHeight are those of the cache with height h for that row, and
\* no recomputation has been scheduled.
C13_SetRowHeightRecomputesSynchronously ==
    [][\A id \in DataRows, h \in Heights :
          (lastOp'.op = "setRowHeight" /\ SetRowHeight(id, h)) =>
              /\ rowsHeightLookup'[id].isResized
              /\ rowsHeightLookup'[id].sizes["baseCenter"] = h
              /\ CachedTotalHeight(id)' >= h
              /\ RowsMetaMatchesCache'
              /\ debouncePending' = debouncePending
              /\ staleDebounces' = staleDebounces]_vars

\* setRowHeight has just set the second row of the page to 1 while the first keeps
\* its density height 2: the total is 3 with no recomputation pending
C13_Witness ==
    /\ lastOp.op = "setRowHeight"
    /\ props.rows = <<"r1", "r2">>
    /\ rowsHeightLookup["r2"].isResized
    /\ rowsHeightLookup["r2"].sizes["baseCenter"] = 1
    /\ ~rowsHeightLookup["r1"].isResized
    /\ rowsMeta.positions = <<0, 2>>
    /\ rowsMeta.currentPageTotalHeight = 3
    /\ PendingRecomputations = 0

-----------------------------------------------------------------------------
(* Watermark: claims C14 and C15 *)

\* C14: setLastMeasuredRowIndex(i) changes lastMeasuredRowIndex only when the latest
\* pass found an auto-height row and i is greater than the watermark, which then
\* becomes i; no setLastMeasuredRowIndex call makes the watermark decrease.
C14_WatermarkOnlyAdvances ==
    [][\A index \in Indexes :
          (lastOp'.op = "setLastMeasuredRowIndex" /\ SetLastMeasuredRowIndex(index)) =>
              /\ lastMeasuredRowIndex' >= lastMeasuredRowIndex
              /\ lastMeasuredRowIndex' # lastMeasuredRowIndex =>
                    /\ hasRowWithAutoHeight
                    /\ index > lastMeasuredRowIndex
                    /\ lastMeasuredRowIndex' = index]_vars

\* setLastMeasuredRowIndex has advanced the watermark to 1 on a page with
\* auto-height rows
C14_Witness ==
    /\ lastOp.op = "setLastMeasuredRowIndex"
    /\ hasRowWithAutoHeight
    /\ lastMeasuredRowIndex = 1

\* C15: after resetRowHeights() on a page that has auto-height rows the watermark is
\* back at its initial value -1 (nothing measured), and a pass that finds no
\* auto-height row sets it to Infinity (all measured).
C15_ResetPutsWatermarkBack ==
    /\ (lastOp.op = "resetRowHeights" /\ hasRowWithAutoHeight)
          => lastMeasuredRowIndex = -1
    /\ (AfterPass /\ ~hasRowWithAutoHeight) => lastMeasuredRowIndex = Infinity

-----------------------------------------------------------------------------
(* Row height cache: claims C16 to C19 *)

\* C16: in every reachable state of the cache, an entry that is autoHeight and still
\* needs its first measurement has the estimate as baseCenter (the estimated height,
\* or the density height), never a height that storeRowHeightMeasurement delivered.
C16_UnmeasuredEntryHoldsEstimate ==
    \A id \in DOMAIN rowsHeightLookup :
        (rowsHeightLookup[id].autoHeight /\ rowsHeightLookup[id].needsFirstMeasurement) =>
            rowsHeightLookup[id].sizes["baseCenter"] = estimatedRowHeight(props, id)

\* a measurement of r1 has just been stored while r2 is still unmeasured at its
\* estimate 5
C16_Witness ==
    /\ lastOp.op = "storeRowHeightMeasurement"
    /\ lastOp.log = <<"schedule">>
    /\ {"r1", "r2"} \subseteq DOMAIN rowsHeightLookup
    /\ ~rowsHeightLookup["r1"].needsFirstMeasurement
    /\ rowsHeightLookup["r1"].sizes["baseCenter"] = 1
    /\ rowsHeightLookup["r2"].autoHeight
    /\ rowsHeightLookup["r2"].needsFirstMeasurement
    /\ rowsHeightLookup["r2"].sizes["baseCenter"] = 5

\* the entry of the row that a pass of the closure starts from
EntryBeforePass(closure, row) ==
    IF lastOp'.op = "resetRowHeights" \/ row \notin DOMAIN rowsHeightLookup
    THEN newHeightEntry(closure)
    ELSE rowsHeightLookup[row]

\* what a pass of the closure leaves in the entry of a row that is not resized
BaseCenterByProvider(closure, row) ==
    /\ closure.getRowHeight = "number" =>
          /\ rowsHeightLookup'[row].sizes["baseCenter"] = getRowHeightProp(closure, row).value
          /\ ~rowsHeightLookup'[row].needsFirstMeasurement
          /\ ~rowsHeightLookup'[row].autoHeight
    /\ closure.getRowHeight \in {"absent", "nullish"} =>
          /\ rowsHeightLookup'[row].sizes["baseCenter"] = closure.rowHeightFromDensity
          /\ ~rowsHeightLookup'[row].needsFirstMeasurement
    /\ closure.getRowHeight = "auto" =>
          rowsHeightLookup'[row].sizes["baseCenter"] =
              IF EntryBeforePass(closure, row).needsFirstMeasurement
              THEN estimatedRowHeight(closure, row)
              ELSE EntryBeforePass(closure, row).sizes["baseCenter"]

\* C17: a pass sets the baseCenter of a row that is not resized to the number
\* getRowHeight returns; to the density height when getRowHeight is absent or returns
\* null/undefined; and for 'auto' to the estimate while the row needs its first
\* measurement, else to the baseCenter already cached. The numeric and the absent
\* branch clear needsFirstMeasurement, the numeric branch clears autoHeight.
C17_BaseCenterFollowsTheProvider ==
    [][lastOp'.op \in PassOps =>
          \A row \in RowsOfPass(PassClosure) :
              ~rowsHeightLookup'[row].isResized => BaseCenterByProvider(PassClosure, row)]_vars

\* a render with getRowHeight returning a number has just gone over r2, measured at 1
\* before, and over the resized r1
C17_Witness ==
    /\ lastOp.op = "render"
    /\ props.getRowHeight = "number"
    /\ props.rows = <<"r1", "r2">>
    /\ rowsHeightLookup["r1"].isResized
    /\ rowsHeightLookup["r1"].sizes["baseCenter"] = 1
    /\ ~rowsHeightLookup["r2"].isResized
    /\ rowsHeightLookup["r2"].sizes["baseCenter"] = 4
    /\ "r2" \in measuredWindow

\* the baseCenter a pass of the closure gives a row it sees for the first time
FreshBaseCenter(closure, row) ==
    CASE closure.getRowHeight = "number" -> getRowHeightProp(closure, row).value
      [] closure.getRowHeight = "auto" -> estimatedRowHeight(closure, row)
      [] OTHER -> closure.rowHeightFromDensity

\* C18: resetRowHeights empties the cache and hydrates: after it the cache has an
\* entry for exactly the rows of the current page and the pinned rows, no entry is
\* resized, and every baseCenter is the one of a row seen for the first time.
C18_ResetRebuildsTheCache ==
    [][lastOp'.op = "resetRowHeights" =>
          /\ DOMAIN rowsHeightLookup' = RowsOfPass(props')
          /\ \A row \in DOMAIN rowsHeightLookup' :
                /\ ~rowsHeightLookup'[row].isResized
                /\ rowsHeightLookup'[row].sizes["baseCenter"]
                      = FreshBaseCenter(props', row)]_vars

\* resetRowHeights has run with only r2 on the page while a measurement of r1 was
\* waiting for its debounced pass: the entry of r1 is gone
C18_Witness ==
    /\ lastOp.op = "resetRowHeights"
    /\ props.rows = <<"r2">>
    /\ "r1" \in measuredWindow
    /\ "r1" \notin DOMAIN rowsHeightLookup
    /\ "r2" \in DOMAIN rowsHeightLookup

\* the pass of the step has left the entry of the row as it found it: as it was
\* before the step, or as setRowHeight wrote it before calling hydrateRowsMeta
LeftAsFound(id) ==
    \/ rowsHeightLookup'[id] = rowsHeightLookup[id]
    \/ /\ lastOp'.op = "setRowHeight"
       /\ \E height \in Heights :
             rowsHeightLookup'[id] = resizedEntry(rowsHeightLookup[id], height)

\* C19: the entries of the cache persist from pass to pass: no step other than
\* resetRowHeights removes an entry, and a pass leaves the entry of a row that is
\* not on the page of its closure, nor pinned, as it found it.
C19_OnlyResetRemovesEntries ==
    [][lastOp'.op # "resetRowHeights" =>
          /\ DOMAIN rowsHeightLookup \subseteq DOMAIN rowsHeightLookup'
          /\ lastOp'.op \in PassOps =>
                \A id \in DOMAIN rowsHeightLookup \ RowsOfPass(PassClosure) :
                    LeftAsFound(id)]_vars

\* a render has gone over the page of r2 alone, and the cache still has the entry
\* of r1, resized to 1 while it was on the page
C19_Witness ==
    /\ lastOp.op = "render"
    /\ props.rows = <<"r2">>
    /\ "r1" \in DOMAIN rowsHeightLookup
    /\ rowsHeightLookup["r1"].isResized
    /\ rowsHeightLookup["r1"].sizes["baseCenter"] = 1
    /\ "r2" \in DOMAIN rowsHeightLookup

-----------------------------------------------------------------------------
(* Column order: claim C20 *)

\* s without the element x
Without(s, x) == SelectSeq(s, LAMBDA f : f # x)

\* the step has moved the field to the target index, or has done nothing when the
\* field was there already
MovedTo(field, targetIndexPosition) ==
    IF FindIndex(columns.orderedFields, field) = targetIndexPosition
    THEN /\ columns' = columns
         /\ lastOp'.log = << >>
    ELSE /\ Len(columns'.orderedFields) = Len(columns.orderedFields)
         /\ Range(columns'.orderedFields) = Range(columns.orderedFields)
         /\ columns'.orderedFields[targetIndexPosition + 1] = field
         /\ Without(columns'.orderedFields, field) = Without(columns.orderedFields, field)
         /\ columns'.lookup = columns.lookup

\* C20: setColumnIndex(field, target), for a field of orderedFields and
\* 0 <= target < length, leaves a permutation of orderedFields with the field at
\* index target and the other fields in the order they had, and leaves the lookup;
\* when the field is at target already, the columns stay and no event is published.
C20_SetColumnIndexMovesTheField ==
    [][\A field \in ColumnFields, targetIndexPosition \in TargetIndexes :
          (/\ lastOp'.op = "setColumnIndex"
           /\ FindIndex(columns.orderedFields, field) >= 0
           /\ targetIndexPosition >= 0
           /\ targetIndexPosition < Len(columns.orderedFields)
           /\ SetColumnIndex(field, targetIndexPosition))
              => MovedTo(field, targetIndexPosition)]_vars

\* the toggle column, put first by its processor, has been moved behind the two
\* other columns
C20_Witness ==
    /\ lastOp.op = "setColumnIndex"
    /\ lastOp.log = <<"columnsChange", "columnOrderChange">>
    /\ columns.orderedFields = <<"name", "age", GRID_DETAIL_PANEL_TOGGLE_FIELD>>
    /\ columns.lookup = {"name", "age", GRID_DETAIL_PANEL_TOGGLE_FIELD}

-----------------------------------------------------------------------------
(* Columns state: claims C21 to C24 *)

\* C22: in every reachable columns state orderedFields has no duplicates and its
\* fields are exactly the keys of lookup; setColumnIndex and the toggle column
\* processor of the detail panel keep it so.
C22_OrderedFieldsMatchLookup ==
    /\ Cardinality(Range(columns.orderedFields)) = Len(columns.orderedFields)
    /\ Range(columns.orderedFields) = columns.lookup

\* number of places of the sequence that hold x
Occurrences(s, x) == Cardinality({i \in DOMAIN s : s[i] = x})

\* getDetailPanelContent is configured in the addToggleColumn last registered
DetailPanelConfigured(procs) ==
    \E i \in DOMAIN procs["hydrateColumns"] :
        /\ procs["hydrateColumns"][i].id = DetailPanelHook
        /\ procs["hydrateColumns"][i].fn = "addToggleColumn:on"

\* the toggle column is in the columns state once, or not at all, as the capability
\* is configured or not
ToggleColumnAsConfigured(procs, columnsState) ==
    IF DetailPanelConfigured(procs)
    THEN /\ Occurrences(columnsState.orderedFields, GRID_DETAIL_PANEL_TOGGLE_FIELD) = 1
         /\ GRID_DETAIL_PANEL_TOGGLE_FIELD \in columnsState.lookup
    ELSE /\ Occurrences(columnsState.orderedFields, GRID_DETAIL_PANEL_TOGGLE_FIELD) = 0
         /\ GRID_DETAIL_PANEL_TOGGLE_FIELD \notin columnsState.lookup

\* C23: with the detail panel hook registered, whatever the sequence of switching
\* getDetailPanelContent on and off and of column hydrations, the columns state has
\* the toggle field once in orderedFields and in lookup when the capability is
\* configured, and in neither when it is not; a hydration that adds the toggle
\* column puts it at index 0, and one that finds it present leaves it where it is.
C23_ToggleColumnExactlyOnce ==
    [][processors'["hydrateColumns"] # << >> =>
          /\ ToggleColumnAsConfigured(processors', columns')
          /\ (/\ DetailPanelConfigured(processors')
              /\ lastOp'.op # "setColumnIndex") =>
                 IF GRID_DETAIL_PANEL_TOGGLE_FIELD \in columns.lookup
                 THEN columns'.orderedFields = columns.orderedFields
                 ELSE columns'.orderedFields
                         = <<GRID_DETAIL_PANEL_TOGGLE_FIELD>> \o columns.orderedFields]_vars

\* a hydration through setColumnVisibility has run with the capability on and the
\* toggle column moved behind the two declared columns before
C23_Witness ==
    /\ lastOp.op = "setColumnVisibility"
    /\ DetailPanelConfigured(processors)
    /\ columns.orderedFields = <<"name", "age", GRID_DETAIL_PANEL_TOGGLE_FIELD>>
    /\ DOMAIN columns.columnVisibilityModel # {}

\* the setters of the column api
ColumnSetters == {"setColumnVisibilityModel", "setColumnVisibility", "setColumnIndex",
                  "setColumnWidth"}

\* what setColumnIndex and setColumnWidth publish: columnsChange, from
\* setGridColumnsState, and then their own notification
PublishedByIndexAndWidth ==
    /\ lastOp'.op = "setColumnIndex" /\ columns' # columns =>
          lastOp'.log = <<"columnsChange", "columnOrderChange">>
    /\ lastOp'.op = "setColumnWidth" /\ columns' # columns =>
          lastOp'.log = <<"columnsChange", "columnWidthChange">>

\* C21: each of setColumnVisibilityModel, setColumnVisibility, setColumnIndex and
\* setColumnWidth publishes columnsChange when it changes the columns state;
\* setColumnIndex and setColumnWidth publish after it columnOrderChange and
\* columnWidthChange.
C21_EverySetterPublishesColumnsChange ==
    [][/\ (lastOp'.op \in ColumnSetters /\ columns' # columns) =>
              (lastOp'.log # << >> /\ Head(lastOp'.log) = "columnsChange")
       /\ PublishedByIndexAndWidth]_vars

\* C21, amended: setColumnIndex and setColumnWidth publish columnsChange and after
\* it columnOrderChange and columnWidthChange when they change the columns state;
\* setColumnVisibilityModel and setColumnVisibility change the columns state without
\* publishing columnsChange.
C21_IndexAndWidthPublishColumnsChange ==
    [][/\ PublishedByIndexAndWidth
       /\ lastOp'.op \in {"setColumnVisibilityModel", "setColumnVisibility"} =>
              "columnsChange" \notin Range(lastOp'.log)]_vars

\* setColumnWidth has just made the column name unbounded, with the column age
\* hidden before by setColumnVisibility
C21_Witness ==
    /\ lastOp.op = "setColumnWidth"
    /\ lastOp.log = <<"columnsChange", "columnWidthChange">>
    /\ columns.dimensions["name"].width = Infinity
    /\ "age" \in DOMAIN columns.columnVisibilityModel
    /\ ~columns.columnVisibilityModel["age"]

\* the case of C24: only dirty models are exported, the visibility model is not
\* controlled and is empty, there is no initial visibility model and no column is
\* flagged hasBeenResized
NothingDirty ==
    /\ lastOp.log = <<"exportOnlyDirtyModels">>
    /\ props.columnVisibilityModel = "absent"
    /\ props.initialColumnVisibilityModel = << >>
    /\ columns.columnVisibilityModel = << >>
    /\ \A f \in DOMAIN columns.dimensions : ~columns.dimensions[f].hasBeenResized

\* the exported dimensions are those of the columns flagged hasBeenResized, with -1
\* for an infinite value
OnlyResizedDimensions ==
    LET flagged == {f \in DOMAIN columns.dimensions : columns.dimensions[f].hasBeenResized}
    IN  IF flagged = {}
        THEN "dimensions" \notin DOMAIN exportedState
        ELSE /\ "dimensions" \in DOMAIN exportedState
             /\ DOMAIN exportedState["dimensions"] = flagged
             /\ \A f \in flagged :
                   /\ exportedState["dimensions"][f]["maxWidth"] = -1
                   /\ exportedState["dimensions"][f]["width"] =
                         IF columns.dimensions[f].width = Infinity THEN -1
                         ELSE columns.dimensions[f].width

-----------------------------------------------------------------------------
(* Faults, quiescence and interleavings: claims C25 to C30 *)

\* the step runs a pass that calls the rowHeight processors, one of which throws
PassMeetsThrowingProcessor ==
    /\ lastOp'.op \in PassOps
    /\ \E i \in DOMAIN processors'["rowHeight"] :
          processors'["rowHeight"][i].fn = ThrowingFn
    /\ RowsOfPass(PassClosure) # {}

\* C25: when a rowHeight processor throws during hydrateRowsMeta the pass ends
\* there: state.rowsMeta (positions, currentPageTotalHeight) stays as the last pass
\* that went through left it, and the call does not reach forceUpdate.
C25_ThrowingProcessorAbortsThePass ==
    [][PassMeetsThrowingProcessor =>
          /\ rowsMeta' = rowsMeta
          /\ lastPass' = "throw"]_vars

\* setRowHeight has run into a throwing processor: the cache has the new height of
\* r1, rowsMeta still has the two positions of the pass before
C25_Witness ==
    /\ lastOp.op = "setRowHeight"
    /\ lastPass = "throw"
    /\ Len(rowsMeta.positions) = 2
    /\ rowsHeightLookup["r1"].isResized
    /\ rowsMeta.currentPageTotalHeight > 2

\* C26: storeRowHeightMeasurement(id, h, position) with h equal to the value the
\* cache has for that position of the row schedules no hydration and changes
\* neither the sizes nor rowsMeta; so with rows whose content height is stable,
\* measuring, hydrating and measuring again comes to rest: from some point on no
\* debounced hydration is pending.
C26_EqualMeasurementSchedulesNothing ==
    /\ [][\A id \in DataRows, h \in Heights, position \in Positions :
            (/\ lastOp'.op = "storeRowHeightMeasurement"
             /\ id \in DOMAIN rowsHeightLookup
             /\ rowsHeightLookup[id].autoHeight
             /\ BaseKeyOf(position) \in DOMAIN rowsHeightLookup[id].sizes
             /\ rowsHeightLookup[id].sizes[BaseKeyOf(position)] = h
             /\ StoreMeasuredRowHeight(id, h, position)) =>
                /\ debouncePending' = debouncePending
                /\ staleDebounces' = staleDebounces
                /\ rowsMeta' = rowsMeta
                /\ rowsHeightLookup'[id].sizes = rowsHeightLookup[id].sizes
                /\ lastOp'.log = << >>]_vars
    /\ <>[](~debouncePending)

\* after the hydration that a first measurement scheduled, r1 was measured again at
\* the height the cache has: nothing is pending
C26_Witness ==
    /\ lastOp.op = "storeRowHeightMeasurement"
    /\ lastOp.log = << >>
    /\ lastPass = "forceUpdate"
    /\ "r1" \in DOMAIN rowsHeightLookup
    /\ rowsHeightLookup["r1"].autoHeight
    /\ ~rowsHeightLookup["r1"].needsFirstMeasurement
    /\ rowsHeightLookup["r1"].sizes["baseCenter"] = ContentHeight("r1")
    /\ rowsMeta.positions # << >>
    /\ ~debouncePending

\* C27: a row resized with setRowHeight(id, h) has baseCenter = h after the call,
\* and in every later step that is neither another setRowHeight nor
\* resetRowHeights (passes, renders, storeRowHeightMeasurement for the row) its
\* entry stays and keeps that baseCenter, also for a row that was autoHeight before
\* the resize.
C27_ResizedHeightIsKept ==
    [][\A id \in DataRows :
          /\ \A h \in ResizedHeights :
                (lastOp'.op = "setRowHeight" /\ SetRowHeight(id, h)) =>
                    rowsHeightLookup'[id].sizes["baseCenter"] = h
          /\ (/\ id \in DOMAIN rowsHeightLookup
              /\ rowsHeightLookup[id].isResized
              /\ lastOp'.op \notin {"setRowHeight", "resetRowHeights"}) =>
                 /\ id \in DOMAIN rowsHeightLookup'
                 /\ rowsHeightLookup'[id].sizes["baseCenter"] =
                        rowsHeightLookup[id].sizes["baseCenter"]]_vars

\* C28: setColumnIndex(field, target) for a field that orderedFields does not have
\* leaves orderedFields as it was.
C28_UnknownFieldLeavesTheOrder ==
    [][\A field \in ColumnFields, targetIndexPosition \in TargetIndexes :
          (/\ lastOp'.op = "setColumnIndex"
           /\ FindIndex(columns.orderedFields, field) < 0
           /\ SetColumnIndex(field, targetIndexPosition))
              => columns'.orderedFields = columns.orderedFields]_vars

\* C29: a debounced hydration never commits stale data: once a pass has run,
\* whenever no debounced recomputation is pending, rowsMeta.positions has one entry
\* per row of the current page of the latest render, also when the page or the
\* props changed while a debounced recomputation was pending.
C29_NoPendingRecomputationMeansCurrentPage ==
    (lastPass # "none" /\ PendingRecomputations = 0) =>
        Len(rowsMeta.positions) = Len(props.rows)

\* the latest pass found an auto-height row that still needs its first measurement
PassFoundUnmeasuredAutoRow ==
    /\ hasRowWithAutoHeight
    /\ \E row \in RowsOfPass(props) :
          /\ row \in DOMAIN rowsHeightLookup
          /\ rowsHeightLookup[row].autoHeight
          /\ rowsHeightLookup[row].needsFirstMeasurement

\* C30: whenever the latest pass found at least one auto-height row that still needs
\* its first measurement, lastMeasuredRowIndex is not Infinity, also when an
\* earlier pass had found no auto-height row.
C30_UnmeasuredAutoRowMeansFiniteWatermark ==
    PassFoundUnmeasuredAutoRow => lastMeasuredRowIndex # Infinity

-----------------------------------------------------------------------------
(* Stale measurements and aborted passes: claims C31 and C32 *)

\* top plus bottom spacing of the row under the current props
SpacingOf(row) ==
    IF props.getRowSpacing = "present"
    THEN getRowSpacing(props, props.rows, row).top
         + getRowSpacing(props, props.rows, row).bottom
    ELSE 0

\* C31: after a hydrateRowsMeta pass of the current props, with getRowHeight
\* returning a number h and no rowHeight processor registered, every row of the
\* page that is not resized has the total height h plus its top and bottom
\* spacing, whatever storeRowHeightMeasurement stored for it, at any position,
\* while it was auto height.
C31_NumberHeightIsTheRowHeight ==
    (/\ AfterPass
     /\ lastOp.op # "staleDebounce"
     /\ props.getRowHeight = "number"
     /\ processors["rowHeight"] = << >>) =>
        \A i \in 1..Len(props.rows) :
            ~rowsHeightLookup[props.rows[i]].isResized =>
                CachedTotalHeight(props.rows[i]) =
                    getRowHeightProp(props, props.rows[i]).value + SpacingOf(props.rows[i])

\* C32: a hydrateRowsMeta pass that a throwing rowHeight processor aborts leaves
\* rowsHeightLookup (the entries and their autoHeight and needsFirstMeasurement
\* flags) and hasRowWithAutoHeight, the flag that setLastMeasuredRowIndex consults,
\* as they were before the pass; stated for the handlers that write nothing to the
\* cache before they run the pass.
C32_AbortedPassLeavesTheCache ==
    [][(/\ PassMeetsThrowingProcessor
        /\ lastOp'.op \notin {"setRowHeight", "resetRowHeights"}) =>
          /\ rowsHeightLookup' = rowsHeightLookup
          /\ hasRowWithAutoHeight' = hasRowWithAutoHeight]_vars

====
